---- MODULE Spec2Model ----
(***************************************************************************)
(* Model of the deployment task plugin of the pipeline executor            *)
(* (pkg/microservice/warpdrive/core/service/taskplugin/deploy.go):         *)
(* Run patches the image of one container per matched workload, Wait       *)
(* fingerprints the mutated workloads and polls the rollout until it is    *)
(* ready, failed, cancelled or timed out.                                  *)
(*                                                                         *)
(* Strings that the code takes apart or builds (container names, error     *)
(* messages) are sequences of tokens; "" is the empty sequence.            *)
(***************************************************************************)
EXTENDS Integers, Sequences, FiniteSets, TLC

----------------------------------------------------------------------------
(* Bounds of the exploration *)

\* plugin operations (Run, Wait, SetStatus, ...) invoked on the one Task
MaxOps == 2
\* cluster-API calls that may fail during one Run
MaxFaults == 2
\* pods the namespace holds when Wait lists them
MaxPods == 2
\* the ListPods calls of one scan, the last of which may fail
MaxListCalls == 3

----------------------------------------------------------------------------
(* Program constants *)

StatusCreated == "created"
StatusRunning == "running"
StatusPassed == "passed"
StatusFailed == "failed"
StatusTimeout == "timeout"
StatusCancelled == "cancelled"

Deployment == "Deployment"
StatefulSet == "StatefulSet"
CronJob == "CronJob"

DeployTimeout == 600

Statuses == {StatusCreated, StatusRunning, StatusPassed, StatusFailed, StatusTimeout, StatusCancelled}
Terminal == {StatusPassed, StatusFailed, StatusTimeout, StatusCancelled}

\* the reasons workLoadDeployStat treats as a definitively broken rollout
FatalReasons == {"ImagePullBackOff", "ErrImagePull", "CrashLoopBackOff", "ErrImageNeverPull"}

----------------------------------------------------------------------------
(* Strings and errors *)

\* a nil error / the empty string
NoErr == << >>

\* TrimSuffix leaving the string as it is
TrimSuffixNone(s, suffix) == s

\* strings.TrimSuffix
TrimSuffix(s, suffix) ==
    IF Len(s) >= Len(suffix) /\ SubSeq(s, Len(s) - Len(suffix) + 1, Len(s)) = suffix
    THEN SubSeq(s, 1, Len(s) - Len(suffix))
    ELSE s

\* errors.WithMessage(err, msg).Error() = msg + ": " + err.Error()
WithMessage(err, msg) == msg \o <<": ">> \o err

\* the error a failing cluster or HTTP call returns
ApiError(call) == <<"api error in ", call>>

RECURSIVE JoinRec(_, _, _)
JoinRec(lines, sep, i) ==
    IF i > Len(lines) THEN << >>
    ELSE IF i = Len(lines) THEN lines[i]
    ELSE lines[i] \o <<sep>> \o JoinRec(lines, sep, i + 1)

\* strings.Join
Join(lines, sep) == JoinRec(lines, sep, 1)

RECURSIVE Flatten(_)
\* concatenation of a sequence of sequences
Flatten(ss) == IF ss = << >> THEN << >> ELSE Head(ss) \o Flatten(Tail(ss))

\* the elements of a sequence
Range(s) == {s[i] : i \in 1..Len(s)}

----------------------------------------------------------------------------
(* The cluster: workloads, their pod templates and rollout status *)

ServiceName == "myservice"
OldImage == "repo/app:1.0"
NewImage == "repo/app:2.0"
SidecarImage == "repo/proxy:1.0"

Api == <<"api">>
Sidecar == <<"proxy">>

D0 == [kind |-> Deployment, name |-> "aux"]
D1 == [kind |-> Deployment, name |-> ServiceName]
S1 == [kind |-> StatefulSet, name |-> ServiceName]
C1 == [kind |-> CronJob, name |-> ServiceName]

\* every workload the service's manifests declare, in list order
Universe == <<D0, D1, S1, C1>>
Ids == Range(Universe)

ApiContainer == [Name |-> Api, Image |-> OldImage]
SidecarContainer == [Name |-> Sidecar, Image |-> SidecarImage]

\* desired replica count of every workload
Replicas == 3

RolloutStatus(og, u, a) ==
    [generation |-> 2, observedGeneration |-> og, replicas |-> Replicas,
     updatedReplicas |-> u, availableReplicas |-> a]

ReadyStatus == RolloutStatus(2, Replicas, Replicas)

\* the rollout states a Deployment or StatefulSet is observed in
RolloutStatuses ==
    {ReadyStatus,
     RolloutStatus(1, Replicas, Replicas),
     RolloutStatus(2, Replicas - 1, Replicas),
     RolloutStatus(2, Replicas, Replicas - 1)}

\* the pod-template labels of a workload
TemplateLabels(id) == {<<"kind", id.kind>>, <<"name", id.name>>}

\* ObjectMeta.UID of a workload
WorkloadUID(id) == <<"uid", id.kind, id.name>>

\* a workload of the namespace; labelled: it carries the product and
\* service labels (it was deployed, not imported)
Workload(id, present, labelled, containers) ==
    [exists |-> present, labelled |-> labelled, containers |-> containers,
     status |-> ReadyStatus]

\* the namespaces the Task may be run against: with or without the helper
\* Deployment "aux" listed first (with or without the api container), with or
\* without the service's own Deployment, StatefulSet and CronJob, deployed
\* (labelled) or imported
Clusters ==
    {[id \in Ids |->
        CASE id = D0 -> Workload(id, d0 # << >>, lab, d0)
          [] id = D1 -> Workload(id, d1, lab, <<SidecarContainer, ApiContainer>>)
          [] id = S1 -> Workload(id, s1, lab, <<ApiContainer>>)
          [] OTHER -> Workload(id, c1, lab, <<ApiContainer, SidecarContainer>>)] :
      d0 \in {<< >>, <<SidecarContainer>>, <<ApiContainer>>},
      d1 \in BOOLEAN, s1 \in BOOLEAN, c1 \in BOOLEAN, lab \in BOOLEAN}

----------------------------------------------------------------------------
(* Run: resolve the workloads and patch the image *)

\* the calls of one Run that can be made to fail
RunCalls ==
    {"GetRESTConfig", "GetKubeClient", "GetKubeClientSet", "ServerVersion",
     "GetProductInfo", "getService", "ListDeployments", "ListStatefulSets",
     "ListCronJobs", "getRenderedManifests", "GetDeployment", "GetStatefulSet",
     "GetCronJob", "UpdateDeploymentImage", "UpdateStatefulSetImage",
     "UpdateCronJobImage"}

WorkloadTypes == {"", Deployment, StatefulSet, CronJob}

\* the calls whose failure does not by itself end Run: the clientset
\* initialisation (no return follows it) and the typed gets of the manifest
\* fallback (logged and skipped)
SoftCalls == {"GetKubeClientSet", "GetDeployment", "GetStatefulSet", "GetCronJob"}

ClientCalls == {"GetRESTConfig", "GetKubeClient", "GetKubeClientSet"}

\* the sets of failing calls of one Run; a second failure can only be reached
\* behind a soft one
FaultSets ==
    {f \in SUBSET RunCalls :
        /\ Cardinality(f) <= MaxFaults
        /\ Cardinality(f \ SoftCalls) <= 1}

\* the calls a Run of a service of known workload kind can reach
KnownCalls(kind) ==
    ClientCalls \cup {"ServerVersion", "GetProductInfo", "getService"} \cup
    (CASE kind = Deployment -> {"GetDeployment", "UpdateDeploymentImage"}
       [] kind = StatefulSet -> {"GetStatefulSet", "UpdateStatefulSetImage"}
       [] OTHER -> {"GetCronJob", "UpdateCronJobImage"})

\* what one Run receives from its caller and its collaborators:
\*   clusterID   pipelineTask.ConfigPayload.DeployClusterID is set
\*   faults      the calls that return an error
\*   nilClient   GetKubeClientSet returns a nil clientset with its error
\*   lt121       the server version is below 1.21 (legacy-beta CronJobs)
\*   sleeping    productInfo.IsSleeping()
\*   wtype       serviceInfo.WorkloadType
\* (inputs that differ only in a value the Run cannot read are left out)
RunInputs ==
    {in \in [clusterID : BOOLEAN, faults : FaultSets, nilClient : BOOLEAN,
             lt121 : BOOLEAN, sleeping : BOOLEAN, wtype : WorkloadTypes] :
        /\ (in.faults \cap ClientCalls # {}) => in.clusterID
        /\ in.nilClient => "GetKubeClientSet" \in in.faults
        /\ in.sleeping => in.faults \subseteq {"GetKubeClientSet"}
        /\ in.wtype # "" => in.faults \subseteq KnownCalls(in.wtype)
        /\ in.wtype \in {Deployment, StatefulSet} => ~in.lt121}

\* the local state of one Run: the named error slot, the replaced flag, the
\* Task lists and the cluster as changed so far, the calls made, the errors
\* raised, the calls that returned an error, whether the body has returned or
\* panicked
RunStart(task, cluster) ==
    [err |-> NoErr, replaced |-> FALSE, rr |-> task.ReplaceResources,
     rl |-> task.RelatedPodLabels, objs |-> cluster, calls |-> << >>,
     failures |-> << >>, errs |-> << >>, ret |-> FALSE, panicked |-> FALSE,
     nilSet |-> FALSE]

Called(st, c) == [st EXCEPT !.calls = Append(@, c)]

\* the call just made returned an error
Fail(st, call) == [st EXCEPT !.errs = Append(@, call)]

\* err = e; return
Return(st, e) == [st EXCEPT !.err = e, !.failures = Append(@, e), !.ret = TRUE]

\* err = e, without a return
SetErr(st, e) == [st EXCEPT !.err = e, !.failures = Append(@, e)]

\* lines 151-168
SetupClients(st, in) ==
    IF ~in.clusterID THEN st
    ELSE LET s1 == Called(st, <<"GetRESTConfig">>) IN
      IF "GetRESTConfig" \in in.faults
      THEN Return(Fail(s1, "GetRESTConfig"), WithMessage(ApiError("GetRESTConfig"), <<"can't get k8s rest config">>))
      ELSE LET s2 == Called(s1, <<"GetKubeClient">>) IN
        IF "GetKubeClient" \in in.faults
        THEN Return(Fail(s2, "GetKubeClient"), WithMessage(ApiError("GetKubeClient"), <<"can't init k8s client">>))
        ELSE LET s3 == Called(s2, <<"GetKubeClientSet">>) IN
          IF "GetKubeClientSet" \in in.faults
          THEN [SetErr(Fail(s3, "GetKubeClientSet"),
                       WithMessage(ApiError("GetKubeClientSet"), <<"failed to init k8s clientset">>))
                  EXCEPT !.nilSet = in.nilClient]
          ELSE s3

\* lines 170-174; calling Discovery() on a nil clientset panics
GetVersion(st, in) ==
    IF st.ret THEN st
    ELSE LET s1 == Called(st, <<"ServerVersion">>) IN
      IF st.nilSet THEN [s1 EXCEPT !.ret = TRUE, !.panicked = TRUE]
      ELSE IF "ServerVersion" \in in.faults
      THEN Return(Fail(s1, "ServerVersion"), WithMessage(ApiError("ServerVersion"), <<"failed to get kubernetes server version">>))
      ELSE s1

\* GetProduct with the sleeping error set but no return after it
GetProductSleepNoReturn(st, in) ==
    IF st.ret THEN st
    ELSE LET s1 == Called(st, <<"GetProductInfo">>) IN
      IF "GetProductInfo" \in in.faults
      THEN Return(Fail(s1, "GetProductInfo"), WithMessage(ApiError("GetProductInfo"), <<"failed to get product">>))
      ELSE IF in.sleeping
      THEN SetErr([s1 EXCEPT !.err = NoErr], <<"product is sleeping">>)
      ELSE [s1 EXCEPT !.err = NoErr]

\* lines 176-187; productInfo, err := ... assigns the named err
GetProduct(st, in) ==
    IF st.ret THEN st
    ELSE LET s1 == Called(st, <<"GetProductInfo">>) IN
      IF "GetProductInfo" \in in.faults
      THEN Return(Fail(s1, "GetProductInfo"), WithMessage(ApiError("GetProductInfo"), <<"failed to get product">>))
      ELSE IF in.sleeping
      THEN Return([s1 EXCEPT !.err = NoErr], <<"product is sleeping">>)
      ELSE [s1 EXCEPT !.err = NoErr]

\* lines 197-200 and getService
GetService(st, in) ==
    IF st.ret THEN st
    ELSE LET s1 == Called(st, <<"getService">>) IN
      IF "getService" \in in.faults
      THEN Return(Fail(s1, "getService"), ApiError("getService")) ELSE s1

\* getter.ListDeployments / ListStatefulSets / ListCronJobs with the product
\* and service label selector
ListByLabel(objs, kind) ==
    SelectSeq(Universe, LAMBDA id : id.kind = kind /\ objs[id].exists /\ objs[id].labelled)

\* the four lists fetchRelatedWorkloads returns, CronJobs in the representation
\* the server version selects
Workloads(d, s, c, lt121) ==
    [d |-> d, s |-> s, c |-> IF lt121 THEN << >> ELSE c, cb |-> IF lt121 THEN c ELSE << >>]

NoWorkloads == Workloads(<< >>, << >>, << >>, FALSE)

\* the typed get fetchWorkloadsForImportedService issues for a manifest's kind
GetCall(kind) ==
    CASE kind = Deployment -> "GetDeployment"
      [] kind = StatefulSet -> "GetStatefulSet"
      [] OTHER -> "GetCronJob"

RECURSIVE ImportedRec(_, _, _, _)
\* lines 502-535: one typed get per manifest; an error or an absent workload
\* is logged and skipped
ImportedRec(st, in, i, found) ==
    IF i > Len(Universe) THEN [st |-> st, found |-> found]
    ELSE LET id == Universe[i]
             s1 == Called(st, <<GetCall(id.kind), id.name>>)
             failed == GetCall(id.kind) \in in.faults
         IN ImportedRec(IF failed THEN Fail(s1, GetCall(id.kind)) ELSE s1, in, i + 1,
                        IF failed \/ ~st.objs[id].exists THEN found
                        ELSE Append(found, id))

OfKind(ids, kind) == SelectSeq(ids, LAMBDA id : id.kind = kind)

\* lines 495-537
fetchWorkloadsForImportedService(st, in) ==
    LET s1 == Called(st, <<"getRenderedManifests">>) IN
    IF "getRenderedManifests" \in in.faults
    THEN [st |-> Fail(s1, "getRenderedManifests"), w |-> NoWorkloads,
          e |-> ApiError("getRenderedManifests")]
    ELSE LET r == ImportedRec(s1, in, 1, << >>) IN
         [st |-> r.st, e |-> NoErr,
          w |-> Workloads(OfKind(r.found, Deployment), OfKind(r.found, StatefulSet),
                          OfKind(r.found, CronJob), in.lt121)]

\* fetchRelatedWorkloads falling back as soon as no Deployment is listed
fetchRelatedWorkloadsDeploymentsOnly(st, in) ==
    LET s1 == Called(st, <<"ListDeployments">>)
        s2 == Called(s1, <<"ListStatefulSets">>)
        s3 == Called(s2, <<"ListCronJobs">>)
        deployments == ListByLabel(st.objs, Deployment)
        statefulSets == ListByLabel(st.objs, StatefulSet)
        cronJobs == ListByLabel(st.objs, CronJob)
    IN IF "ListDeployments" \in in.faults
       THEN [st |-> Fail(s1, "ListDeployments"), w |-> NoWorkloads, e |-> ApiError("ListDeployments")]
       ELSE IF "ListStatefulSets" \in in.faults
       THEN [st |-> Fail(s2, "ListStatefulSets"), w |-> NoWorkloads, e |-> ApiError("ListStatefulSets")]
       ELSE IF "ListCronJobs" \in in.faults
       THEN [st |-> Fail(s3, "ListCronJobs"), w |-> NoWorkloads, e |-> ApiError("ListCronJobs")]
       ELSE IF Len(deployments) > 0
       THEN [st |-> s3, e |-> NoErr,
             w |-> Workloads(deployments, statefulSets, cronJobs, in.lt121)]
       ELSE fetchWorkloadsForImportedService(s3, in)

\* fetchRelatedWorkloads taking a failed list call for an empty result
fetchRelatedWorkloadsErrorAsEmpty(st, in) ==
    LET s1 == Called(st, <<"ListDeployments">>)
        s2 == Called(s1, <<"ListStatefulSets">>)
        s3 == Called(s2, <<"ListCronJobs">>)
        deployments == ListByLabel(st.objs, Deployment)
        statefulSets == ListByLabel(st.objs, StatefulSet)
        cronJobs == ListByLabel(st.objs, CronJob)
    IN IF "ListDeployments" \in in.faults
       THEN fetchWorkloadsForImportedService(Fail(s1, "ListDeployments"), in)
       ELSE IF "ListStatefulSets" \in in.faults
       THEN fetchWorkloadsForImportedService(Fail(s2, "ListStatefulSets"), in)
       ELSE IF "ListCronJobs" \in in.faults
       THEN fetchWorkloadsForImportedService(Fail(s3, "ListCronJobs"), in)
       ELSE IF Len(deployments) > 0 \/ Len(statefulSets) > 0 \/ Len(cronJobs) > 0
       THEN [st |-> s3, e |-> NoErr,
             w |-> Workloads(deployments, statefulSets, cronJobs, in.lt121)]
       ELSE fetchWorkloadsForImportedService(s3, in)

\* lines 469-493
fetchRelatedWorkloads(st, in) ==
    LET s1 == Called(st, <<"ListDeployments">>)
        s2 == Called(s1, <<"ListStatefulSets">>)
        s3 == Called(s2, <<"ListCronJobs">>)
        deployments == ListByLabel(st.objs, Deployment)
        statefulSets == ListByLabel(st.objs, StatefulSet)
        cronJobs == ListByLabel(st.objs, CronJob)
    IN IF "ListDeployments" \in in.faults
       THEN [st |-> Fail(s1, "ListDeployments"), w |-> NoWorkloads, e |-> ApiError("ListDeployments")]
       ELSE IF "ListStatefulSets" \in in.faults
       THEN [st |-> Fail(s2, "ListStatefulSets"), w |-> NoWorkloads, e |-> ApiError("ListStatefulSets")]
       ELSE IF "ListCronJobs" \in in.faults
       THEN [st |-> Fail(s3, "ListCronJobs"), w |-> NoWorkloads, e |-> ApiError("ListCronJobs")]
       ELSE IF Len(deployments) > 0 \/ Len(statefulSets) > 0 \/ Len(cronJobs) > 0
       THEN [st |-> s3, e |-> NoErr,
             w |-> Workloads(deployments, statefulSets, cronJobs, in.lt121)]
       ELSE fetchWorkloadsForImportedService(s3, in)

\* a workload has a container of that name
HasContainer(obj, containerName) ==
    \E i \in DOMAIN obj.containers : obj.containers[i].Name = containerName

\* FirstContainer reading the container after the loop has moved on to the
\* last one
FirstContainerStale(obj, containerName) == obj.containers[Len(obj.containers)]

\* the first container of that name, as the container loops find it
FirstContainer(obj, containerName) ==
    obj.containers[CHOOSE i \in DOMAIN obj.containers :
        /\ obj.containers[i].Name = containerName
        /\ \A j \in 1..(i - 1) : obj.containers[j].Name # containerName]

\* updater.Update*Image: the named container of the workload gets the image
PatchImage(objs, id, containerName, image) ==
    [objs EXCEPT ![id].containers =
        [i \in DOMAIN @ |-> IF @[i].Name = containerName
                            THEN [@[i] EXCEPT !.Image = image] ELSE @[i]]]

\* task.Resource
Resource(kind, name, container, origin) ==
    [Kind |-> kind, Name |-> name, Container |-> container, Origin |-> origin,
     PodOwnerUID |-> << >>]

\* PatchAndRecord patching a container that already runs the image back to
\* the previous one
PatchAndRecordToggle(st, in, id, containerName, image, updateCall, what, withLabels) ==
    LET s1 == Called(st, <<updateCall, id.name, containerName>>)
        c == FirstContainer(st.objs[id], containerName)
    IN IF updateCall \in in.faults
       THEN Return(Fail(s1, updateCall), WithMessage(ApiError(updateCall),
                                   <<"failed to update container image in ", what, id.name>>
                                      \o c.Name))
       ELSE [s1 EXCEPT !.objs = PatchImage(@, id, containerName,
                                           IF c.Image = image THEN OldImage ELSE image),
                       !.rr = Append(@, Resource(id.kind, id.name, c.Name, c.Image)),
                       !.replaced = TRUE,
                       !.rl = IF withLabels THEN Append(@, TemplateLabels(id)) ELSE @]

\* PatchAndRecord without "replaced = true"
PatchAndRecordNoFlag(st, in, id, containerName, image, updateCall, what, withLabels) ==
    LET s1 == Called(st, <<updateCall, id.name, containerName>>)
        c == FirstContainer(st.objs[id], containerName)
    IN IF updateCall \in in.faults
       THEN Return(Fail(s1, updateCall), WithMessage(ApiError(updateCall),
                                   <<"failed to update container image in ", what, id.name>>
                                      \o c.Name))
       ELSE [s1 EXCEPT !.objs = PatchImage(@, id, containerName, image),
                       !.rr = Append(@, Resource(id.kind, id.name, c.Name, c.Image)),
                       !.rl = IF withLabels THEN Append(@, TemplateLabels(id)) ELSE @]

\* the body of one "container.Name == containerName" branch: patch, record
\* the Resource, set replaced and (in discovery mode) record the pod labels
PatchAndRecord(st, in, id, containerName, image, updateCall, what, withLabels) ==
    LET s1 == Called(st, <<updateCall, id.name, containerName>>)
        c == FirstContainer(st.objs[id], containerName)
    IN IF updateCall \in in.faults
       THEN Return(Fail(s1, updateCall), WithMessage(ApiError(updateCall),
                                   <<"failed to update container image in ", what, id.name>>
                                      \o c.Name))
       ELSE [s1 EXCEPT !.objs = PatchImage(@, id, containerName, image),
                       !.rr = Append(@, Resource(id.kind, id.name, c.Name, c.Image)),
                       !.replaced = TRUE,
                       !.rl = IF withLabels THEN Append(@, TemplateLabels(id)) ELSE @]

\* PatchFirst with a break that leaves the container loop only: the next
\* listed workload that has the container is patched as well
PatchFirstInnerBreak(st, in, list, containerName, image, updateCall, what) ==
    LET matching == SelectSeq(list, LAMBDA id : HasContainer(st.objs[id], containerName)) IN
    IF st.ret \/ matching = << >> THEN st
    ELSE LET first == PatchAndRecord(st, in, matching[1], containerName, image,
                                     updateCall, what, TRUE)
         IN IF first.ret \/ Len(matching) < 2 THEN first
            ELSE PatchAndRecord(first, in, matching[2], containerName, image,
                                updateCall, what, TRUE)

\* one labelled loop of lines 207-302: the first listed workload that has the
\* container is patched, then the loop is left
PatchFirst(st, in, list, containerName, image, updateCall, what) ==
    LET matching == SelectSeq(list, LAMBDA id : HasContainer(st.objs[id], containerName)) IN
    IF st.ret \/ matching = << >> THEN st
    ELSE PatchAndRecord(st, in, matching[1], containerName, image, updateCall, what, TRUE)

\* lines 201-302: discovery mode
RunDiscovery(st, in, containerName, image) ==
    LET f == fetchRelatedWorkloads(st, in) IN
    IF f.e # NoErr
    THEN Return(f.st, WithMessage(f.e, <<"failed to fetch related workloads">>))
    ELSE LET a == PatchFirst(f.st, in, f.w.d, containerName, image,
                             "UpdateDeploymentImage", "deployments")
             b == PatchFirst(a, in, f.w.s, containerName, image,
                             "UpdateStatefulSetImage", "statefulsets")
             c == PatchFirst(b, in, f.w.c, containerName, image,
                             "UpdateCronJobImage", "statefulsets")
         IN PatchFirst(c, in, f.w.cb, containerName, image,
                       "UpdateCronJobImage", "statefulsets")

\* RunKnown taking an absent workload for one without containers
RunKnownMissingAsEmpty(st, in, containerName, image, serviceName) ==
    LET id == [kind |-> in.wtype, name |-> serviceName]
        getCall == GetCall(in.wtype)
        s1 == Called(st, <<getCall, serviceName>>)
        updateCall == CASE in.wtype = Deployment -> "UpdateDeploymentImage"
                        [] in.wtype = StatefulSet -> "UpdateStatefulSetImage"
                        [] OTHER -> "UpdateCronJobImage"
        what == CASE in.wtype = Deployment -> "deployments"
                  [] in.wtype = StatefulSet -> "statefulsets"
                  [] OTHER -> "cronJob"
        notFound == CASE in.wtype = Deployment -> "deployment: "
                      [] in.wtype = StatefulSet -> "statefulset: "
                      [] OTHER -> "cronJob: "
    IN IF getCall \in in.faults
       THEN Return(Fail(s1, getCall), IF in.wtype = CronJob
                       THEN WithMessage(ApiError(getCall), <<"failed to get cronjob">>)
                       ELSE ApiError(getCall))
       ELSE IF ~(id \in Ids /\ st.objs[id].exists)
       THEN s1
       ELSE IF ~HasContainer(st.objs[id], containerName) THEN s1
       ELSE PatchAndRecord(s1, in, id, containerName, image, updateCall, what, FALSE)

\* lines 303-421: the workload kind is known, direct get by the service name
RunKnown(st, in, containerName, image, serviceName) ==
    LET id == [kind |-> in.wtype, name |-> serviceName]
        getCall == GetCall(in.wtype)
        s1 == Called(st, <<getCall, serviceName>>)
        updateCall == CASE in.wtype = Deployment -> "UpdateDeploymentImage"
                        [] in.wtype = StatefulSet -> "UpdateStatefulSetImage"
                        [] OTHER -> "UpdateCronJobImage"
        what == CASE in.wtype = Deployment -> "deployments"
                  [] in.wtype = StatefulSet -> "statefulsets"
                  [] OTHER -> "cronJob"
        notFound == CASE in.wtype = Deployment -> "deployment: "
                      [] in.wtype = StatefulSet -> "statefulset: "
                      [] OTHER -> "cronJob: "
    IN IF getCall \in in.faults
       THEN Return(Fail(s1, getCall), IF in.wtype = CronJob
                       THEN WithMessage(ApiError(getCall), <<"failed to get cronjob">>)
                       ELSE ApiError(getCall))
       ELSE IF ~(id \in Ids /\ st.objs[id].exists)
       THEN Return(s1, <<notFound, serviceName, " not found">>)
       ELSE IF ~HasContainer(st.objs[id], containerName) THEN s1
       ELSE PatchAndRecord(s1, in, id, containerName, image, updateCall, what, FALSE)

\* lines 189-427
RunWorkloads(st, in, task) ==
    IF st.ret THEN st
    ELSE LET containerName == TrimSuffix(task.ContainerName, <<"_", task.ServiceName>>)
             s1 == IF in.wtype = ""
                   THEN RunDiscovery(st, in, containerName, task.Image)
                   ELSE RunKnown(st, in, containerName, task.Image, task.ServiceName)
         IN IF s1.ret THEN s1
            ELSE IF ~s1.replaced
            THEN Return(s1, <<"container ">> \o containerName \o <<" is not found in resources ">>)
            ELSE s1

\* lines 189-200 come before the workloads: the service lookup
RunBody(task, cluster, in) ==
    LET a == SetupClients(RunStart(task, cluster), in)
        b == GetVersion(a, in)
        c == GetProduct(b, in)
        d == GetService(c, in)
    IN RunWorkloads(d, in, task)

\* the sink with a success branch that clears the previous error
SinkClearsError(task, err) ==
    IF err # NoErr
    THEN [task EXCEPT !.TaskStatus = StatusFailed, !.Error = err]
    ELSE [task EXCEPT !.Error = NoErr]

\* lines 142-149: the deferred failure sink
Sink(task, err) ==
    IF err # NoErr
    THEN [task EXCEPT !.TaskStatus = StatusFailed, !.Error = err]
    ELSE task

----------------------------------------------------------------------------
(* Pods and ReplicaSets, as Wait reads them *)

\* ObjectMeta.UID of the n-th ReplicaSet of a Deployment
ReplicaSetUID(id, n) == <<"rs", id.name, n>>

ReplicaSet(id, n, controller) ==
    [UID |-> ReplicaSetUID(id, n), Labels |-> TemplateLabels(id),
     Controller |-> controller, CreationTimestamp |-> n]

OldRS(id) == ReplicaSet(id, 1, WorkloadUID(id))
NewRS(id) == ReplicaSet(id, 2, WorkloadUID(id))
\* matches the Deployment's selector but is controlled by another owner
ForeignRS(id) == ReplicaSet(id, 3, <<"uid", "other">>)

\* the ReplicaSets of the namespace when the fingerprint is taken, in the
\* order the list call returns them
ReplicaSetLists ==
    {<< >>,
     <<ForeignRS(D0), ForeignRS(D1)>>,
     <<OldRS(D0), OldRS(D1), ForeignRS(D1)>>,
     <<OldRS(D0), NewRS(D0), ForeignRS(D0), OldRS(D1), ForeignRS(D1), NewRS(D1)>>}

Running(name) == [Name |-> name, State |-> "running", Reason |-> "", Message |-> << >>]
Waiting(name, reason, message) ==
    [Name |-> name, State |-> "waiting", Reason |-> reason, Message |-> message]

Pod(name, id, owner, phase, init, containers) ==
    [Name |-> name, Labels |-> TemplateLabels(id) \cup {<<"pod", name>>},
     OwnerUID |-> owner, Phase |-> phase,
     InitContainerStatuses |-> init, ContainerStatuses |-> containers]

\* the pods the namespace may hold, in list order: a pod of the Deployment's
\* previous ReplicaSet that crash-loops, a pod of its latest ReplicaSet that
\* is Running with a crash-looping container, a pod of the StatefulSet whose
\* init container cannot pull its image
AllPods ==
    <<Pod("p1", D1, ReplicaSetUID(D1, 1), "Pending", << >>,
          <<Waiting(Api, "CrashLoopBackOff", <<"old back-off">>),
            Waiting(Sidecar, "ContainerCreating", <<"creating">>)>>),
      Pod("p2", D1, ReplicaSetUID(D1, 2), "Running", << >>,
          <<Running(Sidecar), Waiting(Api, "CrashLoopBackOff", <<"back-off">>)>>),
      Pod("p3", S1, WorkloadUID(S1), "Pending",
          <<Waiting(<<"init">>, "ErrImagePull", <<"pull failed">>)>>,
          <<Waiting(Api, "PodInitializing", << >>)>>)>>

PodLists ==
    {SelectSeq(AllPods, LAMBDA p : p.Name \in names) :
        names \in {n \in SUBSET {AllPods[i].Name : i \in DOMAIN AllPods} :
                      Cardinality(n) <= MaxPods}}

\* getter.ListPods with a label selector
ListPods(clusterPods, label) == SelectSeq(clusterPods, LAMBDA p : label \subseteq p.Labels)

\* wrapper.Pod(pod).IsOwnerMatched(uid)
IsOwnerMatched(pod, uid) == pod.OwnerUID = uid

\* wrapper.Deployment(d).Ready()
DeploymentReady(st) ==
    /\ st.observedGeneration >= st.generation
    /\ st.updatedReplicas = st.replicas
    /\ st.availableReplicas = st.replicas

\* wrapper.StatefulSet(s).Ready()
StatefulSetReady(st) ==
    /\ st.observedGeneration >= st.generation
    /\ st.updatedReplicas = st.replicas
    /\ st.availableReplicas = st.replicas

\* lines 672-682: the first container of the pod, init containers first,
\* that waits with a fatal reason; << >> if none
FatalContainers(pod) ==
    SelectSeq(pod.InitContainerStatuses \o pod.ContainerStatuses,
              LAMBDA cs : cs.State = "waiting" /\ cs.Reason \in FatalReasons)

RECURSIVE StatPods(_, _)
\* lines 668-683 over the pods of one label set
StatPods(podList, ownerUID) ==
    IF podList = << >> THEN NoErr
    ELSE LET pod == Head(podList) IN
         IF IsOwnerMatched(pod, ownerUID) /\ FatalContainers(pod) # << >>
         THEN <<"pod: ", pod.Name, FatalContainers(pod)[1].Reason, ": ">>
              \o FatalContainers(pod)[1].Message
         ELSE StatPods(Tail(podList), ownerUID)

RECURSIVE StatLabels(_, _, _, _, _)
\* lines 662-685; failAt: the ListPods call that returns an error (0: none)
StatLabels(clusterPods, labelMaps, ownerUID, failAt, i) ==
    IF i > Len(labelMaps) THEN NoErr
    ELSE IF failAt = i THEN ApiError("ListPods")
    ELSE LET e == StatPods(ListPods(clusterPods, labelMaps[i]), ownerUID) IN
         IF e # NoErr THEN e
         ELSE StatLabels(clusterPods, labelMaps, ownerUID, failAt, i + 1)

\* workLoadDeployStat without the owner test: the first related pod with a
\* container waiting fatally is reported
workLoadDeployStatAnyOwner(clusterPods, labelMaps, ownerUID, failAt) ==
    LET related == SelectSeq(clusterPods, LAMBDA pod :
                       /\ \E i \in DOMAIN labelMaps : labelMaps[i] \subseteq pod.Labels
                       /\ FatalContainers(pod) # << >>)
    IN IF failAt \in DOMAIN labelMaps THEN ApiError("ListPods")
       ELSE IF related = << >> THEN NoErr
       ELSE <<"pod: ", related[1].Name, FatalContainers(related[1])[1].Reason, ": ">>
            \o FatalContainers(related[1])[1].Message

workLoadDeployStat(clusterPods, labelMaps, ownerUID, failAt) ==
    StatLabels(clusterPods, labelMaps, ownerUID, failAt, 1)

\* wrapper.Pod(pod).Resource(): the pod phase and the state, reason and
\* message of every container, init containers first
PodResource(pod) ==
    [Status |-> pod.Phase,
     Containers |-> [i \in DOMAIN (pod.InitContainerStatuses \o pod.ContainerStatuses) |->
        LET cs == (pod.InitContainerStatuses \o pod.ContainerStatuses)[i] IN
        [Status |-> cs.State, Reason |-> cs.Reason, Message |-> cs.Message]]]

\* line 581: fmt.Sprintf("Status: %s, Reason: %s, Message: %s", ...)
MessageLine(cs) ==
    <<"Status: ", cs.Status, ", Reason: ", cs.Reason, ", Message: ">> \o cs.Message

\* PodMessages without the test of the pod status
PodMessagesAnyPhase(pod) ==
    LET podResource == PodResource(pod)
        withMessage == SelectSeq(podResource.Containers, LAMBDA cs : cs.Message # << >>)
    IN [i \in DOMAIN withMessage |-> MessageLine(withMessage[i])]

\* lines 576-584: the lines one pod contributes to msg
PodMessages(pod) ==
    LET podResource == PodResource(pod) IN
    IF podResource.Status # "Running" /\ podResource.Status # "Succeeded"
    THEN LET withMessage == SelectSeq(podResource.Containers, LAMBDA cs : cs.Message # << >>)
         IN [i \in DOMAIN withMessage |-> MessageLine(withMessage[i])]
    ELSE << >>

RECURSIVE ScanPods(_)
ScanPods(podList) ==
    IF podList = << >> THEN << >>
    ELSE PodMessages(Head(podList)) \o ScanPods(Tail(podList))

RECURSIVE ScanLabels(_, _, _, _, _)
\* lines 566-586: msg, or the error of the failing ListPods call
ScanLabels(clusterPods, labelMaps, failAt, i, msg) ==
    IF i > Len(labelMaps) THEN [err |-> NoErr, msg |-> msg]
    ELSE IF failAt = i THEN [err |-> ApiError("ListPods"), msg |-> msg]
    ELSE ScanLabels(clusterPods, labelMaps, failAt, i + 1,
                    msg \o ScanPods(ListPods(clusterPods, labelMaps[i])))

\* TimeoutBranch assigning the joined messages even when there is none
TimeoutBranchAlwaysAssigns(task, clusterPods, failAt) ==
    LET scan == ScanLabels(clusterPods, task.RelatedPodLabels, failAt, 1, << >>) IN
    IF scan.err # NoErr
    THEN [task EXCEPT !.TaskStatus = StatusTimeout, !.Error = scan.err]
    ELSE [task EXCEPT !.TaskStatus = StatusTimeout, !.Error = Join(scan.msg, "\n")]

\* TimeoutBranch scanning only the pods a Resource's fingerprint owns
TimeoutBranchOwnedOnly(task, clusterPods, failAt) ==
    LET owned == SelectSeq(clusterPods, LAMBDA pod :
                     \E i \in DOMAIN task.ReplaceResources :
                        IsOwnerMatched(pod, task.ReplaceResources[i].PodOwnerUID))
        scan == ScanLabels(owned, task.RelatedPodLabels, failAt, 1, << >>)
    IN IF scan.err # NoErr
       THEN [task EXCEPT !.TaskStatus = StatusTimeout, !.Error = scan.err]
       ELSE IF Len(scan.msg) # 0
       THEN [task EXCEPT !.TaskStatus = StatusTimeout, !.Error = Join(scan.msg, "\n")]
       ELSE [task EXCEPT !.TaskStatus = StatusTimeout]

\* lines 563-592: the timeout branch
TimeoutBranch(task, clusterPods, failAt) ==
    LET scan == ScanLabels(clusterPods, task.RelatedPodLabels, failAt, 1, << >>) IN
    IF scan.err # NoErr
    THEN [task EXCEPT !.TaskStatus = StatusTimeout, !.Error = scan.err]
    ELSE IF Len(scan.msg) # 0
    THEN [task EXCEPT !.TaskStatus = StatusTimeout, !.Error = Join(scan.msg, "\n")]
    ELSE [task EXCEPT !.TaskStatus = StatusTimeout]

RECURSIVE SortNewestFirst(_)
\* lines 725-727: sort.Slice by CreationTimestamp, latest first
SortNewestFirst(rs) ==
    IF rs = << >> THEN << >>
    ELSE LET newest == CHOOSE i \in DOMAIN rs :
                          \A j \in DOMAIN rs : rs[i].CreationTimestamp >= rs[j].CreationTimestamp
         IN <<rs[newest]>> \o SortNewestFirst(SubSeq(rs, 1, newest - 1) \o SubSeq(rs, newest + 1, Len(rs)))

\* DeploymentOwnerUID without the ControllerRef filter
DeploymentOwnerUIDAnyOwner(id, rsList, faults) ==
    LET replicaSets == SelectSeq(rsList, LAMBDA rs : TemplateLabels(id) \subseteq rs.Labels)
        get == <<<<"GetDeployment", id.name>>>>
        list == get \o <<<<"ListReplicaSets", id.name>>>>
    IN IF "GetDeployment" \in faults
       THEN [err |-> ApiError("GetDeployment"), uid |-> << >>, calls |-> get]
       ELSE IF "ListReplicaSets" \in faults
       THEN [err |-> ApiError("ListReplicaSets"), uid |-> << >>, calls |-> list]
       ELSE IF Len(replicaSets) <= 0
       THEN [err |-> <<"no replicaset found for deployment: ", id.name>>, uid |-> << >>,
             calls |-> list]
       ELSE [err |-> NoErr, uid |-> SortNewestFirst(replicaSets)[1].UID, calls |-> list]

\* lines 698-728: the fingerprint of a Deployment, and the calls it makes
DeploymentOwnerUID(id, rsList, faults) ==
    LET replicaSets == SelectSeq(rsList, LAMBDA rs : TemplateLabels(id) \subseteq rs.Labels)
        owned == SelectSeq(replicaSets, LAMBDA rs : rs.Controller = WorkloadUID(id))
        get == <<<<"GetDeployment", id.name>>>>
        list == get \o <<<<"ListReplicaSets", id.name>>>>
    IN IF "GetDeployment" \in faults
       THEN [err |-> ApiError("GetDeployment"), uid |-> << >>, calls |-> get]
       ELSE IF "ListReplicaSets" \in faults
       THEN [err |-> ApiError("ListReplicaSets"), uid |-> << >>, calls |-> list]
       ELSE IF Len(owned) <= 0
       THEN [err |-> <<"no replicaset found for deployment: ", id.name>>, uid |-> << >>,
             calls |-> list]
       ELSE [err |-> NoErr, uid |-> SortNewestFirst(owned)[1].UID, calls |-> list]

RECURSIVE OwnerUIDRec(_, _, _, _, _, _)
\* lines 688-733; log: the cluster reads made so far
OwnerUIDRec(resources, rsList, faults, i, newResources, log) ==
    IF i > Len(resources) THEN [err |-> NoErr, resources |-> newResources, calls |-> log]
    ELSE LET resource == resources[i]
             id == [kind |-> resource.Kind, name |-> resource.Name]
         IN CASE resource.Kind = StatefulSet ->
                   LET get == Append(log, <<"GetStatefulSet", id.name>>) IN
                   IF "GetStatefulSet" \in faults
                   THEN [err |-> ApiError("GetStatefulSet"), resources |-> newResources,
                         calls |-> get]
                   ELSE OwnerUIDRec(resources, rsList, faults, i + 1,
                            Append(newResources, [resource EXCEPT !.PodOwnerUID = WorkloadUID(id)]),
                            get)
              [] resource.Kind = Deployment ->
                   LET d == DeploymentOwnerUID(id, rsList, faults) IN
                   IF d.err # NoErr
                   THEN [err |-> d.err, resources |-> newResources, calls |-> log \o d.calls]
                   ELSE OwnerUIDRec(resources, rsList, faults, i + 1,
                            Append(newResources, [resource EXCEPT !.PodOwnerUID = d.uid]),
                            log \o d.calls)
              [] OTHER -> OwnerUIDRec(resources, rsList, faults, i + 1,
                                      Append(newResources, resource), log)

getResourcesPodOwnerUID(task, rsList, faults) ==
    OwnerUIDRec(task.ReplaceResources, rsList, faults, 1, << >>, << >>)

\* ResourceReady with a failed get leaving ready as it was (true)
ResourceReadyLenient(resource, objs, getFails) ==
    LET id == [kind |-> resource.Kind, name |-> resource.Name] IN
    CASE resource.Kind = Deployment ->
            IF getFails THEN TRUE
            ELSE IF ~objs[id].exists THEN FALSE ELSE DeploymentReady(objs[id].status)
      [] resource.Kind = StatefulSet ->
            IF getFails THEN TRUE
            ELSE IF ~objs[id].exists THEN FALSE ELSE StatefulSetReady(objs[id].status)
      [] OTHER -> TRUE

\* ResourceReady reading Deployments only
ResourceReadyDeploymentsOnly(resource, objs, getFails) ==
    LET id == [kind |-> resource.Kind, name |-> resource.Name] IN
    CASE resource.Kind = Deployment ->
            IF getFails \/ ~objs[id].exists THEN FALSE ELSE DeploymentReady(objs[id].status)
      [] OTHER -> TRUE

\* lines 605-648: the readiness of one tracked resource as the tick sees it;
\* getFails: the get of the workload returns an error
ResourceReady(resource, objs, getFails) ==
    LET id == [kind |-> resource.Kind, name |-> resource.Name] IN
    CASE resource.Kind = Deployment ->
            IF getFails \/ ~objs[id].exists THEN FALSE ELSE DeploymentReady(objs[id].status)
      [] resource.Kind = StatefulSet ->
            IF getFails \/ ~objs[id].exists THEN FALSE ELSE StatefulSetReady(objs[id].status)
      [] OTHER -> TRUE

\* IsTaskDone with "or" for "and"
IsTaskDoneEither(task) == task.TaskStatus # StatusCreated \/ task.TaskStatus # StatusRunning

\* lines 754-759
IsTaskDone(task) == task.TaskStatus # StatusCreated /\ task.TaskStatus # StatusRunning

\* lines 762-767
IsTaskFailed(task) == task.TaskStatus \in {StatusFailed, StatusTimeout, StatusCancelled}

\* TaskTimeout substituting the default whatever is configured
TaskTimeoutDefaultAlways(task) == [task EXCEPT !.Timeout = DeployTimeout]

\* lines 116-122
TaskTimeout(task) == IF task.Timeout = 0 THEN [task EXCEPT !.Timeout = DeployTimeout] ELSE task

----------------------------------------------------------------------------
(* The state machine *)

VARIABLES
    Task,       \* p.Task
    objs,       \* the workloads of the namespace
    pc,         \* where the plugin is: "idle", in Wait's "select" or "tick", "panicked"
    idx,        \* the index of the resource the tick evaluates next
    seen,       \* the resources this tick has fetched and found ready
    cancelled,  \* ctx.Done() is closed
    timedOut,   \* the timeout timer of Wait has fired
    calls,      \* the calls the last Run, or the setup of the last Wait, made
    ran,        \* the record of the operation invoked last
    waitErr,    \* Task.Error when Wait was called
    ops,        \* the operations invoked so far
    peer        \* a second plugin instance, while the first one runs

vars == <<Task, objs, pc, idx, seen, cancelled, timedOut, calls, ran, waitErr, ops, peer>>

ContainerNames == {<<"api", "_", ServiceName>>, <<"api", "_", "other">>}

\* the record of the operation invoked last: which one (op), for a Run what it
\* was given (wtype, sleeping) and how it went, for a Wait the ReplicaSets its
\* list calls returned
NoRun ==
    [op |-> "", done |-> FALSE, failures |-> << >>, apiErrors |-> << >>,
     panicked |-> FALSE, sinks |-> 0, wtype |-> "", sleeping |-> FALSE,
     replicaSets |-> << >>]

\* the Task as the scheduler builds it from the payload
NewTask(skip, name) ==
    [TaskStatus |-> StatusCreated, Error |-> NoErr,
     ReplaceResources |-> << >>, RelatedPodLabels |-> << >>,
     Timeout |-> 0, SkipWaiting |-> skip, ContainerName |-> name,
     ServiceName |-> ServiceName, Image |-> NewImage]

\* the plugin after construction, before any operation
Fresh ==
    /\ pc = "idle"
    /\ idx = 0
    /\ seen = {}
    /\ cancelled = FALSE
    /\ timedOut = FALSE
    /\ calls = << >>
    /\ ran = NoRun
    /\ waitErr = NoErr
    /\ ops = 0

\* the namespaces of the life-cycle exploration: the service is deployed with
\* its Deployment, StatefulSet and CronJob, or with its CronJob alone, and
\* nothing else
RolloutClusters ==
    {c \in Clusters : /\ c[C1].exists /\ c[D1].exists = c[S1].exists
                      /\ c[D1].labelled /\ ~c[D0].exists}

\* the Run inputs of the life-cycle exploration
RolloutInputs ==
    {in \in RunInputs :
        /\ ~in.clusterID /\ ~in.lt121 /\ ~in.sleeping
        /\ in.wtype # CronJob
        /\ in.faults \in {{}, {"getService"}}}

\* the timeouts a payload configures, in seconds: unset, or set
ConfiguredTimeouts == {0, 30}

\* the state private to a plugin instance while the other instance runs: its
\* Task, where it is in Wait, its context and its timer, the operations
\* invoked on it
Parked(id, task, at, i, ready, ctxDone, fired, errBefore, count) ==
    [id |-> id, Task |-> task, pc |-> at, idx |-> i, seen |-> ready,
     cancelled |-> ctxDone, timedOut |-> fired, waitErr |-> errBefore, ops |-> count]

\* no second instance has been constructed
NoPeer == Parked(0, NewTask(FALSE, << >>), "idle", 0, {}, FALSE, FALSE, NoErr, 0)

Init ==
    /\ \E skip \in BOOLEAN, timeout \in ConfiguredTimeouts :
          Task = [NewTask(skip, <<"api", "_", ServiceName>>) EXCEPT !.Timeout = timeout]
    /\ objs \in RolloutClusters
    /\ Fresh
    /\ peer = NoPeer

\* lines 111-113
SetStatus(status) ==
    /\ pc = "idle" /\ ops < MaxOps
    /\ Task' = [Task EXCEPT !.TaskStatus = status]
    /\ ran' = [NoRun EXCEPT !.op = "SetStatus"]
    /\ ops' = ops + 1
    /\ UNCHANGED <<peer, objs, pc, idx, seen, cancelled, timedOut, calls, waitErr>>

\* lines 136-428: the body, then the deferred sink; a panic of the body still
\* runs the sink and then leaves Run by unwinding
Run(in) ==
    /\ pc = "idle" /\ ops < MaxOps
    /\ \E st \in {RunBody(Task, objs, in)} :
       /\ Task' = Sink([Task EXCEPT !.ReplaceResources = st.rr, !.RelatedPodLabels = st.rl],
                       st.err)
       /\ objs' = st.objs
       /\ calls' = st.calls
       /\ ran' = [op |-> "Run", done |-> TRUE, failures |-> st.failures,
                  apiErrors |-> st.errs, panicked |-> st.panicked,
                  sinks |-> IF st.err # NoErr THEN 1 ELSE 0,
                  wtype |-> in.wtype, sleeping |-> in.sleeping,
                  replicaSets |-> << >>]
       /\ pc' = IF st.panicked THEN "panicked" ELSE "idle"
    /\ ops' = ops + 1
    /\ UNCHANGED <<peer, idx, seen, cancelled, timedOut, waitErr>>

FingerprintCalls == {"GetDeployment", "GetStatefulSet", "ListReplicaSets"}

\* Fingerprint with the resources assigned before the error is looked at
FingerprintAssignFirst(task, rsList, faults) ==
    LET r == getResourcesPodOwnerUID(task, rsList, faults) IN
    IF r.err # NoErr
    THEN [task |-> [task EXCEPT !.ReplaceResources = r.resources,
                                !.Error = <<"get resource owner info error: ">> \o r.err],
          pc |-> "idle", calls |-> r.calls]
    ELSE [task |-> [task EXCEPT !.ReplaceResources = r.resources],
          pc |-> "select", calls |-> r.calls]

\* lines 549-555: the fingerprint of every recorded resource
Fingerprint(task, rsList, faults) ==
    LET r == getResourcesPodOwnerUID(task, rsList, faults) IN
    IF r.err # NoErr
    THEN [task |-> [task EXCEPT !.Error = <<"get resource owner info error: ">> \o r.err],
          pc |-> "idle", calls |-> r.calls]
    ELSE [task |-> [task EXCEPT !.ReplaceResources = r.resources],
          pc |-> "select", calls |-> r.calls]

\* WaitSetup with the timer armed before SkipWaiting is looked at
WaitSetupTimerFirst(task, rsList, faults) ==
    IF task.SkipWaiting
    THEN [task |-> [TaskTimeout(task) EXCEPT !.TaskStatus = StatusPassed],
          pc |-> "idle", calls |-> << >>]
    ELSE Fingerprint(TaskTimeout(task), rsList, faults)

\* WaitSetup with the Task held in one place for every instance, so that the
\* setup works on the Task bound last
WaitSetupShared(task, rsList, faults) ==
    IF task.SkipWaiting
    THEN [task |-> [task EXCEPT !.TaskStatus = StatusPassed], pc |-> "idle",
          calls |-> << >>]
    ELSE Fingerprint(TaskTimeout(peer.Task), rsList, faults)

\* lines 540-555: SkipWaiting, the timer, the fingerprint
WaitSetup(task, rsList, faults) ==
    IF task.SkipWaiting
    THEN [task |-> [task EXCEPT !.TaskStatus = StatusPassed], pc |-> "idle",
          calls |-> << >>]
    ELSE Fingerprint(TaskTimeout(task), rsList, faults)

\* lines 540-555: Wait up to its poll loop; calls holds its cluster reads
WaitBegin(rsList, faults) ==
    /\ pc = "idle" /\ ops < MaxOps
    /\ ops' = ops + 1
    /\ waitErr' = Task.Error
    /\ cancelled' = FALSE
    /\ timedOut' = FALSE
    /\ idx' = 0
    /\ seen' = {}
    /\ LET w == WaitSetup(Task, rsList, faults) IN
       /\ Task' = w.task
       /\ pc' = w.pc
       /\ calls' = w.calls
       /\ ran' = [NoRun EXCEPT !.op = "Wait",
                               !.replicaSets = IF \E i \in DOMAIN w.calls :
                                                     w.calls[i][1] = "ListReplicaSets"
                                               THEN rsList ELSE << >>]
    /\ UNCHANGED <<peer, objs>>

\* line 559-561
WaitCancelled ==
    /\ pc = "select" /\ cancelled
    /\ Task' = [Task EXCEPT !.TaskStatus = StatusCancelled]
    /\ pc' = "idle"
    /\ UNCHANGED <<peer, objs, idx, seen, cancelled, timedOut, calls, ran, waitErr, ops>>

\* WaitTimeout setting the status without returning
WaitTimeoutNoReturn(clusterPods, failAt) ==
    /\ pc = "select" /\ timedOut
    /\ failAt <= Len(Task.RelatedPodLabels)
    /\ Task' = TimeoutBranch(Task, clusterPods, failAt)
    /\ UNCHANGED <<peer, objs, pc, idx, seen, cancelled, timedOut, calls, ran, waitErr, ops>>

\* lines 563-592; failAt: the ListPods call that fails (0: none)
WaitTimeout(clusterPods, failAt) ==
    /\ pc = "select" /\ timedOut
    /\ failAt <= Len(Task.RelatedPodLabels)
    /\ Task' = TimeoutBranch(Task, clusterPods, failAt)
    /\ pc' = "idle"
    /\ UNCHANGED <<peer, objs, idx, seen, cancelled, timedOut, calls, ran, waitErr, ops>>

\* WaitDefault taken although the context is cancelled (the signal checked at
\* the call only)
WaitDefaultEager ==
    /\ pc = "select" /\ ~timedOut
    /\ pc' = "tick"
    /\ idx' = 1
    /\ seen' = {}
    /\ UNCHANGED <<peer, Task, objs, cancelled, timedOut, calls, ran, waitErr, ops>>

\* WaitDefault taken although the timer has fired
WaitDefaultAlways ==
    /\ pc = "select" /\ ~cancelled
    /\ pc' = "tick"
    /\ idx' = 1
    /\ seen' = {}
    /\ UNCHANGED <<peer, Task, objs, cancelled, timedOut, calls, ran, waitErr, ops>>

\* lines 594-597: neither channel is ready, the default branch sleeps and
\* starts the scan of the resources
WaitDefault ==
    /\ pc = "select" /\ ~cancelled /\ ~timedOut
    /\ pc' = "tick"
    /\ idx' = 1
    /\ seen' = {}
    /\ UNCHANGED <<peer, Task, objs, cancelled, timedOut, calls, ran, waitErr, ops>>

\* lines 651-656: the end of a tick
EndTick(ready) ==
    LET t == IF ready THEN [Task EXCEPT !.TaskStatus = StatusPassed] ELSE Task IN
    /\ Task' = t
    /\ pc' = IF IsTaskDone(t) THEN "idle" ELSE "select"
    /\ idx' = 0

\* lines 599-649: the fast-fail check and the readiness of resource idx
WaitTick(clusterPods, failAt, getFails) ==
    /\ pc = "tick"
    /\ failAt <= Len(Task.RelatedPodLabels)
    /\ failAt > 0 => ~getFails
    /\ IF idx > Len(Task.ReplaceResources)
       THEN /\ EndTick(TRUE)
            /\ UNCHANGED seen
       ELSE LET resource == Task.ReplaceResources[idx]
                e == workLoadDeployStat(clusterPods, Task.RelatedPodLabels,
                                        resource.PodOwnerUID, failAt)
                ready == ResourceReady(resource, objs, getFails)
                id == [kind |-> resource.Kind, name |-> resource.Name]
            IN IF e # NoErr
                  THEN /\ Task' = [Task EXCEPT !.TaskStatus = StatusFailed, !.Error = e]
                       /\ pc' = "idle"
                       /\ idx' = 0
                       /\ UNCHANGED seen
                  ELSE /\ seen' = IF /\ resource.Kind \in {Deployment, StatefulSet}
                                     /\ ~getFails /\ objs[id].exists
                                     /\ IF resource.Kind = Deployment
                                        THEN DeploymentReady(objs[id].status)
                                        ELSE StatefulSetReady(objs[id].status)
                                  THEN seen \cup {idx} ELSE seen
                       /\ IF ~ready THEN EndTick(FALSE)
                          ELSE IF idx = Len(Task.ReplaceResources) THEN EndTick(TRUE)
                          ELSE /\ idx' = idx + 1
                               /\ UNCHANGED <<Task, pc>>
    /\ UNCHANGED <<peer, objs, cancelled, timedOut, calls, ran, waitErr, ops>>

\* the caller cancels the context of the Wait in progress
Cancel ==
    /\ pc \in {"select", "tick"} /\ ~cancelled
    /\ cancelled' = TRUE
    /\ UNCHANGED <<peer, Task, objs, pc, idx, seen, timedOut, calls, ran, waitErr, ops>>

\* the timer armed at line 547 fires
TimerFire ==
    /\ pc \in {"select", "tick"} /\ ~timedOut
    /\ timedOut' = TRUE
    /\ UNCHANGED <<peer, Task, objs, pc, idx, seen, cancelled, calls, ran, waitErr, ops>>

\* the tracked workloads whose rollout the controllers drive
Tracked ==
    {id \in Ids : /\ id.kind \in {Deployment, StatefulSet}
                  /\ \E i \in DOMAIN Task.ReplaceResources :
                        /\ Task.ReplaceResources[i].Kind = id.kind
                        /\ Task.ReplaceResources[i].Name = id.name}

\* the rollout of a tracked workload progresses or regresses while a tick
\* reads the workloads one after the other
ClusterChange(id, status) ==
    /\ pc = "tick"
    /\ id \in Tracked
    /\ objs[id].status # status
    /\ objs' = [objs EXCEPT ![id].status = status]
    /\ UNCHANGED <<peer, Task, pc, idx, seen, cancelled, timedOut, calls, ran, waitErr, ops>>

Next ==
    \/ \E status \in Statuses : SetStatus(status)
    \/ \E in \in RolloutInputs : Run(in)
    \/ \E rsList \in ReplicaSetLists, faults \in SUBSET FingerprintCalls : WaitBegin(rsList, faults)
    \/ WaitCancelled
    \/ \E clusterPods \in PodLists, failAt \in 0..MaxListCalls :
          WaitTimeout(clusterPods, failAt)
    \/ WaitDefault
    \/ \E clusterPods \in PodLists, failAt \in 0..MaxListCalls, getFails \in BOOLEAN :
          WaitTick(clusterPods, failAt, getFails)
    \/ Cancel
    \/ TimerFire
    \/ \E id \in Ids, status \in RolloutStatuses : ClusterChange(id, status)

Spec == Init /\ [][Next]_vars

\* Run alone, on every namespace and with every failure, optionally after the
\* scheduler has set a status
InitRun ==
    /\ \E name \in ContainerNames : Task = NewTask(FALSE, name)
    /\ objs \in Clusters
    /\ Fresh
    /\ peer = NoPeer

\* the scheduler sets a status before it starts the task
SetStatusFirst(status) == ops = 0 /\ SetStatus(status)

\* one Run of the task
RunOnce(in) == ~ran.done /\ Run(in)

NextRun ==
    \/ \E status \in Statuses : SetStatusFirst(status)
    \/ \E in \in RunInputs : RunOnce(in)

SpecRun == InitRun /\ [][NextRun]_vars

\* a step of the goroutine that runs Wait's poll loop
WaitStep ==
    \/ WaitCancelled
    \/ \E clusterPods \in PodLists, failAt \in 0..MaxListCalls :
          WaitTimeout(clusterPods, failAt)
    \/ WaitDefault
    \/ \E clusterPods \in PodLists, failAt \in 0..MaxListCalls, getFails \in BOOLEAN :
          WaitTick(clusterPods, failAt, getFails)

\* the scheduling of a Wait in progress: the goroutine keeps running (the
\* branch the select offers is taken, the calls of a tick return), and the
\* timer armed at line 547 fires
WaitProgress == WF_vars(WaitStep) /\ WF_vars(TimerFire)

\* a task that polls, with the default deadline
InitLive == Init /\ ~Task.SkipWaiting /\ Task.Timeout = 0

SpecLive == InitLive /\ [][Next]_vars /\ WaitProgress

\* the image the Task of the second instance deploys
PeerImage == "repo/app:3.0"

\* two plugin instances on one namespace, each with the Task its SetTask
\* decoded: the same service, another image and deadline
InitPair ==
    /\ Task = NewTask(FALSE, <<"api", "_", ServiceName>>)
    /\ objs \in RolloutClusters
    /\ Fresh
    /\ peer = Parked(2, [NewTask(FALSE, <<"api", "_", ServiceName>>)
                            EXCEPT !.Image = PeerImage, !.Timeout = 30],
                     "idle", 0, {}, FALSE, FALSE, NoErr, 0)

\* the scheduler takes the goroutine of the running instance off and runs
\* that of the other instance
Yield ==
    /\ peer.id # 0
    /\ peer' = Parked(3 - peer.id, Task, pc, idx, seen, cancelled, timedOut, waitErr, ops)
    /\ Task' = peer.Task
    /\ pc' = peer.pc
    /\ idx' = peer.idx
    /\ seen' = peer.seen
    /\ cancelled' = peer.cancelled
    /\ timedOut' = peer.timedOut
    /\ waitErr' = peer.waitErr
    /\ ops' = peer.ops
    /\ UNCHANGED <<objs, calls, ran>>

\* the ReplicaSets of the namespace while the two instances run
PairReplicaSets == <<OldRS(D1), ForeignRS(D1), NewRS(D1)>>

\* the executor calls Run on an instance first
RunFirst(in) == ops = 0 /\ Run(in)

\* and Wait after it; the list calls of the fingerprint succeed
WaitAfterRun == ops = 1 /\ WaitBegin(PairReplicaSets, {})

\* the steps of the two instances in any interleaving; the pods of the
\* namespace are healthy and the list calls of the ticks succeed
NextPair ==
    \/ \E in \in RolloutInputs : RunFirst(in)
    \/ WaitAfterRun
    \/ WaitCancelled
    \/ WaitTimeout(<< >>, 0)
    \/ WaitDefault
    \/ \E getFails \in BOOLEAN : WaitTick(<< >>, 0, getFails)
    \/ Cancel
    \/ TimerFire
    \/ Yield

SpecPair == InitPair /\ [][NextPair]_vars

\* a JSON value of the untyped payload
JsonValue(type, val) == [type |-> type, val |-> val]

\* the JSON type each field of task.Deploy decodes from, by its key
FieldTypes ==
    [task_status |-> "string", error |-> "string", replace_resources |-> "array",
     rel_pod_labels |-> "array", timeout |-> "number", skip_waiting |-> "bool",
     container_name |-> "string", service_name |-> "string", image |-> "string"]

\* the payload the scheduler persists for a Task
Encode(task) ==
    [task_status |-> JsonValue("string", <<task.TaskStatus>>),
     error |-> JsonValue("string", task.Error),
     replace_resources |-> JsonValue("array", task.ReplaceResources),
     rel_pod_labels |-> JsonValue("array", task.RelatedPodLabels),
     timeout |-> JsonValue("number", task.Timeout),
     skip_waiting |-> JsonValue("bool", task.SkipWaiting),
     container_name |-> JsonValue("string", task.ContainerName),
     service_name |-> JsonValue("string", <<task.ServiceName>>),
     image |-> JsonValue("string", <<task.Image>>)]

\* the payloads handed to SetTask: that of a new Task, of a Task restored
\* after a failure, with keys left out, with a key the Task does not have,
\* and with a value of a type the field cannot take
Payloads ==
    LET Without(t, keys) == [k \in DOMAIN t \ keys |-> t[k]]
        With(t, key, value) ==
            [k \in DOMAIN t \cup {key} |-> IF k = key THEN value ELSE t[k]]
        new == Encode([NewTask(FALSE, <<"api", "_", ServiceName>>) EXCEPT !.Image = PeerImage])
        failed == Encode([NewTask(TRUE, <<"api", "_", ServiceName>>)
                             EXCEPT !.TaskStatus = StatusFailed, !.Timeout = 30,
                                    !.Error = ApiError("getService")])
    IN {new, failed,
        Without(new, {"timeout", "error", "skip_waiting", "task_status"}),
        With(new, "job_ctx", JsonValue("object", << >>)),
        With(new, "timeout", JsonValue("string", <<"30s">>)),
        With(failed, "skip_waiting", JsonValue("string", <<"yes">>)),
        With(Without(failed, {"error"}), "replace_resources", JsonValue("object", << >>))}

\* the conversion of a payload into a typed Task: every key of the payload
\* that names a field must hold a value of the field's type, a field without
\* a key keeps its zero value, a key that names no field is dropped
ToDeployTask(t) ==
    LET known == DOMAIN t \cap DOMAIN FieldTypes
        ZeroValue(type) ==
            CASE type = "string" -> << >>
              [] type = "array" -> << >>
              [] type = "number" -> 0
              [] type = "bool" -> FALSE
        field(k) == IF k \in DOMAIN t THEN t[k].val ELSE ZeroValue(FieldTypes[k])
        Text(val) == IF val = << >> THEN "" ELSE val[1]
    IN IF \E k \in known : t[k].type # FieldTypes[k]
       THEN [err |-> <<"convert interface to DeployTask error">>, task |-> << >>]
       ELSE [err |-> NoErr,
             task |-> [TaskStatus |-> Text(field("task_status")),
                       Error |-> field("error"),
                       ReplaceResources |-> field("replace_resources"),
                       RelatedPodLabels |-> field("rel_pod_labels"),
                       Timeout |-> field("timeout"),
                       SkipWaiting |-> field("skip_waiting"),
                       ContainerName |-> field("container_name"),
                       ServiceName |-> Text(field("service_name")),
                       Image |-> Text(field("image"))]]

\* SetTask binding what the conversion returned before it looks at the error
SetTaskAssignsFirst(t) ==
    /\ pc = "idle" /\ ops < MaxOps
    /\ \E r \in {ToDeployTask(t)} :
          /\ Task' = IF r.err # NoErr
                     THEN ToDeployTask(<< >>).task
                     ELSE r.task
          /\ ran' = [NoRun EXCEPT !.op = "SetTask",
                                  !.failures = IF r.err # NoErr THEN <<r.err>> ELSE << >>]
    /\ ops' = ops + 1
    /\ UNCHANGED <<peer, objs, pc, idx, seen, cancelled, timedOut, calls, waitErr>>

\* lines 738-747; the error returned is recorded in ran.failures
SetTask(t) ==
    /\ pc = "idle" /\ ops < MaxOps
    /\ \E r \in {ToDeployTask(t)} :
          /\ Task' = IF r.err # NoErr THEN Task ELSE r.task
          /\ ran' = [NoRun EXCEPT !.op = "SetTask",
                                  !.failures = IF r.err # NoErr THEN <<r.err>> ELSE << >>]
    /\ ops' = ops + 1
    /\ UNCHANGED <<peer, objs, pc, idx, seen, cancelled, timedOut, calls, waitErr>>

\* lines 749-751
GetTask == Task

\* the scheduler binds payloads and runs the Task, in any order
NextBind ==
    \/ \E t \in Payloads : SetTask(t)
    \/ \E in \in RolloutInputs : Run(in)

SpecBind == Init /\ [][NextBind]_vars

----------------------------------------------------------------------------
(* Properties *)

\* the step is a Run: only Run leaves ran.done set while counting an operation
RunStep == ran'.done /\ ops' = ops + 1

\* the workload a Resource names
ResourceId(resource) == [kind |-> resource.Kind, name |-> resource.Name]

\* the tracked Deployment and StatefulSet resources, by index
Polled(task) ==
    {i \in DOMAIN task.ReplaceResources :
        task.ReplaceResources[i].Kind \in {Deployment, StatefulSet}}

\* a tracked Deployment or StatefulSet is ready in the cluster
ReadyInCluster(cluster, resource) ==
    IF resource.Kind = Deployment
    THEN DeploymentReady(cluster[ResourceId(resource)].status)
    ELSE StatefulSetReady(cluster[ResourceId(resource)].status)

\* C1: once TaskStatus is Passed, Failed, Timeout or Cancelled, no step of Run
\* or Wait changes it to a different value, except Run's deferred sink firing
\* on a non-empty error (which sets Failed).
C1_TerminalSticky ==
    [][(/\ Task.TaskStatus \in Terminal
        /\ Task'.TaskStatus # Task.TaskStatus
        /\ ~(\E status \in Statuses : SetStatus(status)))
       => (RunStep /\ ran'.sinks = 1 /\ Task'.TaskStatus = StatusFailed)]_vars

\* C2 as stated: whenever the poll loop of Wait sets Passed, every tracked
\* Deployment and StatefulSet is ready in the cluster at that moment.
C2_PassedMeansReadyNow ==
    [][(pc = "tick" /\ Task.TaskStatus # StatusPassed /\ Task'.TaskStatus = StatusPassed)
       => \A i \in Polled(Task') : ReadyInCluster(objs', Task'.ReplaceResources[i])]_vars

\* C2 amended: whenever the poll loop of Wait sets Passed, every tracked
\* Deployment and StatefulSet was fetched without error and found ready by its
\* own read during that same tick.
C2_PassedMeansSeenReady ==
    [][(pc = "tick" /\ Task.TaskStatus # StatusPassed /\ Task'.TaskStatus = StatusPassed)
       => Polled(Task') \subseteq seen']_vars

\* a poll tick has set Passed after reading two or more workloads ready
C2_Witness ==
    /\ pc = "idle" /\ Task.TaskStatus = StatusPassed
    /\ Cardinality(seen) >= 2 /\ seen = Polled(Task)

\* Task.Error is the message of a rejected image patch
UpdateFailed(task) ==
    task.Error # NoErr /\ task.Error[1] = "failed to update container image in "

\* C3 as stated: when Run returns, either it did not fail and appended at
\* least one Resource, or it failed, appended none and patched no workload.
C3_RunAtomic ==
    [][(RunStep /\ ~ran'.panicked)
       => \/ /\ ran'.sinks = 0
             /\ Len(Task'.ReplaceResources) > Len(Task.ReplaceResources)
          \/ /\ ran'.sinks = 1
             /\ Task'.ReplaceResources = Task.ReplaceResources
             /\ objs' = objs]_vars

\* C3 amended: when Run returns without failure it appended at least one
\* Resource; when it fails with anything but a rejected image patch (container
\* not found included) it appended no Resource and patched no workload; when a
\* patch is rejected, the Resources of the kinds patched before it stay
\* recorded and their workloads stay patched.
C3_RunAtomicUnlessPatchRejected ==
    [][(RunStep /\ ~ran'.panicked)
       => /\ ran'.sinks = 0 =>
                Len(Task'.ReplaceResources) > Len(Task.ReplaceResources)
          /\ (ran'.sinks = 1 /\ ~UpdateFailed(Task')) =>
                (Task'.ReplaceResources = Task.ReplaceResources /\ objs' = objs)
          /\ (ran'.sinks = 1 /\ UpdateFailed(Task')) =>
                /\ Len(Task'.ReplaceResources) >= Len(Task.ReplaceResources)
                /\ \A id \in Ids :
                      objs'[id] # objs[id] =>
                         \E i \in DOMAIN Task'.ReplaceResources :
                            /\ i > Len(Task.ReplaceResources)
                            /\ ResourceId(Task'.ReplaceResources[i]) = id]_vars

\* a Run in discovery mode has patched and recorded the Deployment and then
\* failed on the rejected patch of the StatefulSet
C3_Witness ==
    /\ ran.done /\ ran.sinks = 1 /\ UpdateFailed(Task)
    /\ Len(Task.ReplaceResources) = 1
    /\ Task.ReplaceResources[1].Kind = Deployment
    /\ calls[Len(calls)][1] = "UpdateStatefulSetImage"

\* C4: every failure raised on any exit path of Run ends in the deferred sink:
\* Run returns with TaskStatus Failed and Task.Error that failure's message,
\* the sink having assigned once.
C4_EveryFailureSinks ==
    (ran.done /\ ran.failures # << >>)
       => /\ ~ran.panicked
          /\ ran.sinks = 1
          /\ Task.TaskStatus = StatusFailed
          /\ \A i \in DOMAIN ran.failures : Task.Error = ran.failures[i]

ClientSetError ==
    WithMessage(ApiError("GetKubeClientSet"), <<"failed to init k8s clientset">>)

\* C5: when initialising the clientset fails, Run makes no further call (no
\* server version query, no product lookup, no patch) and returns with
\* TaskStatus Failed carrying the clientset error.
C5_ClientSetErrorEndsRun ==
    (ran.done /\ ran.failures # << >> /\ ran.failures[1] = ClientSetError)
       => /\ ~ran.panicked
          /\ calls[Len(calls)] = <<"GetKubeClientSet">>
          /\ Task.TaskStatus = StatusFailed
          /\ Task.Error = ClientSetError

\* C6 as stated: once cancellation is signalled in the poll loop, Wait starts
\* no further tick and returns with TaskStatus Cancelled and Task.Error as it
\* was when Wait was called.
C6_CancelEndsWait ==
    [][(cancelled /\ pc \in {"select", "tick"})
       => /\ pc = "select" => pc' # "tick"
          /\ pc' = "idle" => (Task'.TaskStatus = StatusCancelled /\ Task'.Error = waitErr)]_vars

\* C6 amended: once cancellation is signalled, the select at the head of the
\* loop never takes the default branch again, so Wait returns at the latest at
\* the select after the tick in progress; from that select it returns with
\* Cancelled, or with Timeout if the timer has fired as well; whenever it
\* returns Cancelled, Task.Error is as it was when Wait was called.
C6_CancelStopsPolling ==
    [][(cancelled /\ pc = "select")
       => /\ pc' # "tick"
          /\ pc' = "idle" =>
                /\ Task'.TaskStatus \in {StatusCancelled, StatusTimeout}
                /\ ~timedOut => Task'.TaskStatus = StatusCancelled
                /\ Task'.TaskStatus = StatusCancelled => Task'.Error = waitErr]_vars

\* Wait has returned Cancelled from the poll loop, the timer not having fired
C6_Witness ==
    /\ pc = "idle" /\ cancelled /\ ~timedOut
    /\ Task.TaskStatus = StatusCancelled /\ Task.Error = waitErr
    /\ Task.ReplaceResources # << >>

\* C7: at a select where both the cancellation signal and the timer have
\* fired, Wait ends with Cancelled and leaves Task.Error alone.
C7_CancelBeforeTimeout ==
    [][(pc = "select" /\ cancelled /\ timedOut /\ pc' # "select")
       => (Task'.TaskStatus = StatusCancelled /\ Task'.Error = Task.Error)]_vars

\* the containers of a pod, init containers first
PodContainers(pod) == pod.InitContainerStatuses \o pod.ContainerStatuses

\* the line the timeout scan writes for a container
ContainerLine(cs) ==
    <<"Status: ", cs.State, ", Reason: ", cs.Reason, ", Message: ">> \o cs.Message

\* the lines of the containers of the related pods that satisfy keep, in
\* label-set, pod, container order
RelatedLines(clusterPods, labelMaps, keep(_, _)) ==
    Flatten([i \in DOMAIN labelMaps |->
       Flatten([j \in DOMAIN clusterPods |->
          IF labelMaps[i] \subseteq clusterPods[j].Labels
          THEN LET kept == SelectSeq(PodContainers(clusterPods[j]),
                                     LAMBDA cs : keep(clusterPods[j], cs))
               IN [k \in DOMAIN kept |-> ContainerLine(kept[k])]
          ELSE << >>])])

WaitsFatally(pod, cs) == cs.State = "waiting" /\ cs.Reason \in FatalReasons

HasMessageAndPodNotUp(pod, cs) ==
    cs.Message # << >> /\ pod.Phase \notin {"Running", "Succeeded"}

\* C8 as stated: when the deadline branch runs and the pod listings succeed,
\* Wait returns Timeout and Task.Error is the newline-joined lines of exactly
\* the containers waiting with a fatal reason, over all related pods.
C8_TimeoutErrorIsFatalReasons ==
    [][\A clusterPods \in PodLists :
          WaitTimeout(clusterPods, 0)
             => /\ Task'.TaskStatus = StatusTimeout
                /\ Task'.Error = Join(RelatedLines(clusterPods, Task.RelatedPodLabels,
                                                   WaitsFatally), "\n")]_vars

\* C8 amended: when the deadline branch runs and the pod listings succeed,
\* Wait returns Timeout; the scan collects, in label-set, pod, container order,
\* one line for every container with a non-empty message in a related pod
\* that is neither Running nor Succeeded, whatever the container's state or
\* reason; Task.Error becomes the newline-joined lines if there is any, and
\* is left unchanged otherwise.
C8_TimeoutErrorIsMessages ==
    [][\A clusterPods \in PodLists :
          WaitTimeout(clusterPods, 0)
             => LET lines == RelatedLines(clusterPods, Task.RelatedPodLabels,
                                          HasMessageAndPodNotUp)
                IN /\ Task'.TaskStatus = StatusTimeout
                   /\ Task'.Error = IF lines = << >> THEN Task.Error
                                    ELSE Join(lines, "\n")]_vars

\* Wait has timed out and reported the lines of two containers
C8_Witness ==
    /\ pc = "idle" /\ Task.TaskStatus = StatusTimeout
    /\ \E i, j \in DOMAIN Task.Error :
          i < j /\ Task.Error[i] = "\n" /\ Task.Error[j] = "ContainerCreating"

\* a pod of the list is owned by uid and has a container waiting fatally
OwnedFatalPod(clusterPods, uid) ==
    \E j \in DOMAIN clusterPods :
       /\ clusterPods[j].OwnerUID = uid
       /\ \E k \in DOMAIN PodContainers(clusterPods[j]) :
             WaitsFatally(clusterPods[j], PodContainers(clusterPods[j])[k])

\* C9: at a tick that evaluates a tracked Resource while a pod owned by the
\* Resource's PodOwnerUID has a container waiting with a fatal reason (and
\* the pod listings succeed), Wait returns on that tick with Failed and the
\* pod's message in Task.Error.
C9_FastFail ==
    [][\A clusterPods \in PodLists, getFails \in BOOLEAN :
          (/\ WaitTick(clusterPods, 0, getFails)
           /\ idx <= Len(Task.ReplaceResources)
           /\ OwnedFatalPod(clusterPods, Task.ReplaceResources[idx].PodOwnerUID))
             => /\ pc' = "idle"
                /\ Task'.TaskStatus = StatusFailed
                /\ Task'.Error # NoErr /\ Task'.Error[1] = "pod: "]_vars

\* C10: an error of a list or get call made by a tick (of a Task that is not
\* done yet) neither ends Wait nor changes TaskStatus or Task.Error: the tick
\* counts as not ready and the loop goes on.
C10_WaitFailSoft ==
    [][\A clusterPods \in PodLists, failAt \in 0..MaxListCalls, getFails \in BOOLEAN :
          (/\ WaitTick(clusterPods, failAt, getFails)
           /\ idx <= Len(Task.ReplaceResources)
           /\ ~IsTaskDone(Task)
           /\ LET uid == Task.ReplaceResources[idx].PodOwnerUID
                  e == workLoadDeployStat(clusterPods, Task.RelatedPodLabels, uid, failAt)
              IN \/ e = ApiError("ListPods")
                 \/ e = NoErr /\ getFails /\ idx \in Polled(Task))
             => (Task' = Task /\ pc' = "select")]_vars

----------------------------------------------------------------------------
(* Properties of Run's resolution and of Wait's setup *)

ListCalls == {"ListDeployments", "ListStatefulSets", "ListCronJobs"}
GetCalls == {"GetDeployment", "GetStatefulSet", "GetCronJob"}
UpdateCalls == {"UpdateDeploymentImage", "UpdateStatefulSetImage", "UpdateCronJobImage"}

\* the get, list and patch calls of Run on the workloads of the cluster
WorkloadCalls == ListCalls \cup GetCalls \cup UpdateCalls

\* the calls of a log that have one of the names, in order
CallsNamed(log, names) == SelectSeq(log, LAMBDA c : c[1] \in names)

\* the last tokens of an error message are those of the call's API error
EndsWithApiError(msg, call) ==
    Len(msg) >= 2 /\ SubSeq(msg, Len(msg) - 1, Len(msg)) = <<"api error in ", call>>

\* C11: whenever a get, list or patch call of Run returns an error, that call
\* is the last call of the Run and the Run ends with TaskStatus Failed and
\* that error in Task.Error.
C11_RunFailFast ==
    ran.done =>
       \A i \in DOMAIN ran.apiErrors :
          ran.apiErrors[i] \in WorkloadCalls =>
             /\ calls[Len(calls)][1] = ran.apiErrors[i]
             /\ Task.TaskStatus = StatusFailed
             /\ EndsWithApiError(Task.Error, ran.apiErrors[i])

\* C12: whenever a step of Run or Wait returns having written a new non-empty
\* Task.Error, TaskStatus is terminal (IsTaskDone).
C12_ErrorMeansTerminal ==
    [][(Task'.Error # Task.Error /\ Task'.Error # NoErr /\ pc' = "idle")
       => Task'.TaskStatus \notin {StatusCreated, StatusRunning}]_vars

\* the containers of a workload that a step has changed, by index
ChangedContainers(id) ==
    {i \in DOMAIN objs[id].containers : objs'[id].containers[i] # objs[id].containers[i]}

\* C13: a successful Run for a service of known workload kind makes exactly
\* one image-patch call, changes exactly one container of exactly that
\* workload, and appends exactly one Resource, whose Origin is the image the
\* container had before the patch.
C13_KnownKindPatchesOne ==
    [][(RunStep /\ ~ran'.panicked /\ ran'.sinks = 0 /\ ran'.wtype # "")
       => LET id == [kind |-> ran'.wtype, name |-> Task.ServiceName]
              updates == CallsNamed(calls', UpdateCalls)
              r == Task'.ReplaceResources[Len(Task'.ReplaceResources)]
          IN /\ Len(updates) = 1
             /\ updates[1][2] = id.name
             /\ Len(Task'.ReplaceResources) = Len(Task.ReplaceResources) + 1
             /\ SubSeq(Task'.ReplaceResources, 1, Len(Task.ReplaceResources))
                   = Task.ReplaceResources
             /\ r.Kind = id.kind /\ r.Name = id.name
             /\ \A other \in Ids \ {id} : objs'[other] = objs[other]
             /\ Cardinality(ChangedContainers(id)) = 1
             /\ \A i \in ChangedContainers(id) :
                   /\ objs[id].containers[i].Name = r.Container
                   /\ objs[id].containers[i].Image = r.Origin
                   /\ objs'[id].containers[i].Image = Task.Image]_vars

\* a Run for a CronJob service has patched the one container of the CronJob
C13_Witness ==
    /\ ran.done /\ ran.sinks = 0 /\ ran.wtype = CronJob
    /\ Len(Task.ReplaceResources) = 1
    /\ Task.ReplaceResources[1].Origin = OldImage
    /\ objs[C1].containers[1].Image = NewImage

\* no Deployment, StatefulSet or CronJob carries the product and service labels
LabelPathEmpty(cluster) ==
    \A kind \in {Deployment, StatefulSet, CronJob} : ListByLabel(cluster, kind) = << >>

\* C14: a Run for a service of unknown workload kind whose three list calls
\* succeed fetches the rendered manifests exactly once if the lists are all
\* empty, and never if any list has a workload.
C14_FallbackOnceIffEmpty ==
    (/\ ran.done /\ ran.wtype = ""
     /\ CallsNamed(calls, {"ListCronJobs"}) # << >>
     /\ \A i \in DOMAIN ran.apiErrors : ran.apiErrors[i] \notin ListCalls)
       => Len(CallsNamed(calls, {"getRenderedManifests"}))
             = IF LabelPathEmpty(objs) THEN 1 ELSE 0

\* a Run has found no labelled workload, fetched the manifests once and failed
\* with container not found
C14_Witness ==
    /\ ran.done /\ ran.wtype = "" /\ ran.sinks = 1
    /\ LabelPathEmpty(objs)
    /\ Len(CallsNamed(calls, {"getRenderedManifests"})) = 1
    /\ Task.Error # NoErr /\ Task.Error[1] = "container "


\* the names of the calls of a log
CallNames(log) == {log[i][1] : i \in DOMAIN log}

\* C15: if a label-selector list call (Deployments, StatefulSets, CronJobs)
\* of Run returns an error, the rendered manifests are not fetched, Run fails
\* with that lookup error, and no resource or pod label is recorded and no
\* workload changed.
C15_ListErrorNoFallback ==
    [][RunStep =>
        \A i \in DOMAIN ran'.apiErrors :
           ran'.apiErrors[i] \in ListCalls =>
              /\ "getRenderedManifests" \notin CallNames(calls')
              /\ CallNames(calls') \cap (GetCalls \cup UpdateCalls) = {}
              /\ Task'.TaskStatus = StatusFailed
              /\ Task'.Error = WithMessage(ApiError(ran'.apiErrors[i]),
                                           <<"failed to fetch related workloads">>)
              /\ Task'.ReplaceResources = Task.ReplaceResources
              /\ Task'.RelatedPodLabels = Task.RelatedPodLabels
              /\ objs' = objs]_vars

\* a Run has failed on the error of its second list call
C15_Witness ==
    /\ ran.done /\ ran.apiErrors = <<"ListStatefulSets">>
    /\ Task.TaskStatus = StatusFailed
    /\ calls[Len(calls)][1] = "ListStatefulSets"

\* C16: a Run against a sleeping environment ends with TaskStatus Failed
\* (with the error "product is sleeping" when no earlier call failed), makes
\* no service lookup, workload get or list, manifest fetch or image patch, and
\* leaves ReplaceResources, RelatedPodLabels and the workloads as they were.
C16_SleepingRefused ==
    [][(RunStep /\ ran'.sleeping)
       => /\ Task'.TaskStatus = StatusFailed
          /\ ran'.apiErrors = << >> => Task'.Error = <<"product is sleeping">>
          /\ CallNames(calls')
                \cap ({"getService", "getRenderedManifests"} \cup WorkloadCalls) = {}
          /\ Task'.ReplaceResources = Task.ReplaceResources
          /\ Task'.RelatedPodLabels = Task.RelatedPodLabels
          /\ objs' = objs]_vars

\* a Run has been refused because the environment sleeps
C16_Witness ==
    /\ ran.done /\ ran.sleeping /\ ran.apiErrors = << >>
    /\ Task.TaskStatus = StatusFailed
    /\ Task.Error = <<"product is sleeping">>
    /\ calls[Len(calls)][1] = "GetProductInfo"

\* the prefix of the not-found error of each workload kind
NotFoundPrefix(kind) ==
    CASE kind = Deployment -> "deployment: "
      [] kind = StatefulSet -> "statefulset: "
      [] kind = CronJob -> "cronJob: "

\* C17: when a Run for a service of known workload kind gets the workload
\* without error and the workload does not exist, Run ends with TaskStatus
\* Failed and the not-found error of the kind, makes no image patch, no list
\* and no manifest fetch, and records no Resource.
C17_KnownKindMissing ==
    [][(RunStep /\ ran'.wtype # "")
       => LET id == [kind |-> ran'.wtype, name |-> Task.ServiceName] IN
          (/\ GetCall(id.kind) \in CallNames(calls')
           /\ \A i \in DOMAIN ran'.apiErrors : ran'.apiErrors[i] # GetCall(id.kind)
           /\ ~objs[id].exists)
             => /\ Task'.TaskStatus = StatusFailed
                /\ Task'.Error = <<NotFoundPrefix(id.kind), id.name, " not found">>
                /\ calls'[Len(calls')][1] = GetCall(id.kind)
                /\ CallNames(calls')
                      \cap (UpdateCalls \cup ListCalls \cup {"getRenderedManifests"}) = {}
                /\ Task'.ReplaceResources = Task.ReplaceResources
                /\ Task'.RelatedPodLabels = Task.RelatedPodLabels
                /\ objs' = objs]_vars

\* a Run for a StatefulSet service has found no StatefulSet of that name
C17_Witness ==
    /\ ran.done /\ ran.wtype = StatefulSet /\ ~objs[S1].exists
    /\ Task.TaskStatus = StatusFailed
    /\ Task.Error = <<"statefulset: ", ServiceName, " not found">>

\* a step that is a whole call, or the start of a call, of Wait
WaitBeginStep == ran'.op = "Wait" /\ ops' = ops + 1

\* C18: with Task.SkipWaiting set, Wait sets TaskStatus to Passed and returns
\* at once: it reads nothing from the cluster, does not poll, and changes no
\* other field of the Task (Error, ReplaceResources and Timeout included).
C18_SkipWaiting ==
    [][(WaitBeginStep /\ Task.SkipWaiting)
       => /\ Task' = [Task EXCEPT !.TaskStatus = StatusPassed]
          /\ pc' = "idle"
          /\ calls' = << >>
          /\ objs' = objs]_vars

\* a Wait with SkipWaiting has passed a task that has a patched resource
C18_Witness ==
    /\ ran.op = "Wait" /\ Task.SkipWaiting /\ pc = "idle"
    /\ Task.TaskStatus = StatusPassed
    /\ Task.ReplaceResources # << >>
    /\ Task.Timeout = 0

\* two Resources that differ in PodOwnerUID at most
SameButUID(a, b) == [a EXCEPT !.PodOwnerUID = b.PodOwnerUID] = b

\* C19: Run keeps the entries ReplaceResources had, in order, and only
\* appends; every other step keeps the length and order of ReplaceResources
\* and changes PodOwnerUID at most; a Wait whose fingerprinting fails leaves
\* ReplaceResources as it was.
C19_ReplaceResourcesAppendOnly ==
    [][LET old == Task.ReplaceResources
           new == Task'.ReplaceResources
       IN /\ Len(new) >= Len(old)
          /\ RunStep => SubSeq(new, 1, Len(old)) = old
          /\ ~RunStep => /\ Len(new) = Len(old)
                         /\ \A i \in DOMAIN old : SameButUID(old[i], new[i])
          /\ (WaitBeginStep /\ ~Task.SkipWaiting /\ pc' = "idle") => new = old]_vars

\* a Wait has fingerprinted the Resource of a Deployment
C19_Witness ==
    /\ ran.op = "Wait" /\ pc = "select"
    /\ \E i \in DOMAIN Task.ReplaceResources :
          /\ Task.ReplaceResources[i].Kind = Deployment
          /\ Task.ReplaceResources[i].PodOwnerUID # << >>

\* C20: IsTaskDone is true exactly when TaskStatus is neither Created nor
\* Running, IsTaskFailed exactly when it is Failed, Timeout or Cancelled; so
\* a failed task is done, and a Passed task is done and not failed.
C20_DoneAndFailed ==
    /\ IsTaskDone(Task) <=> Task.TaskStatus \notin {StatusCreated, StatusRunning}
    /\ IsTaskFailed(Task) <=> Task.TaskStatus \in {StatusFailed, StatusTimeout, StatusCancelled}
    /\ IsTaskFailed(Task) => IsTaskDone(Task)
    /\ Task.TaskStatus = StatusPassed => IsTaskDone(Task) /\ ~IsTaskFailed(Task)

\* a Wait has ended with Timeout: the task is done and failed
C20_Witness ==
    /\ ran.op = "Wait" /\ pc = "idle"
    /\ Task.TaskStatus = StatusTimeout
    /\ IsTaskDone(Task) /\ IsTaskFailed(Task)


\* C21: TaskTimeout returns the configured Task.Timeout when it is not zero
\* and the default when it is zero, storing the default in Task.Timeout; a
\* second call returns the same value and changes nothing, and a non-zero
\* timeout is never changed.
C21_TaskTimeout ==
    LET once == TaskTimeout(Task)
        twice == TaskTimeout(once)
    IN /\ Task.Timeout # 0 => once = Task
       /\ Task.Timeout = 0 => once = [Task EXCEPT !.Timeout = DeployTimeout]
       /\ once.Timeout = IF Task.Timeout # 0 THEN Task.Timeout ELSE DeployTimeout
       /\ twice = once
       /\ twice.Timeout = once.Timeout

\* a Wait has armed its timer from a configured timeout and kept it
C21_Witness ==
    /\ ran.op = "Wait" /\ pc = "select"
    /\ Task.Timeout \in ConfiguredTimeouts \ {0}

\* C22: with ContainerName "api_myservice" and ServiceName "myservice", a Run
\* for the Deployment service whose calls all succeed, on a Deployment
\* "myservice" with a container "api" at "repo/app:1.0", patches that
\* container to the target image "repo/app:2.0" and leaves ReplaceResources
\* as the one Resource Deployment, myservice, api, repo/app:1.0.
C22_SuffixStripped ==
    [][(/\ RunStep /\ ran'.wtype = Deployment
        /\ ran'.apiErrors = << >> /\ ~ran'.sleeping
        /\ Task.ContainerName = <<"api", "_", "myservice">>
        /\ Task.ServiceName = "myservice" /\ Task.Image = "repo/app:2.0"
        /\ Task.ReplaceResources = << >>
        /\ objs[D1].exists
        /\ [Name |-> <<"api">>, Image |-> "repo/app:1.0"] \in Range(objs[D1].containers))
       => /\ ran'.sinks = 0 /\ ~ran'.panicked
          /\ [Name |-> <<"api">>, Image |-> "repo/app:2.0"] \in Range(objs'[D1].containers)
          /\ \A c \in Range(objs'[D1].containers) : c.Name = <<"api">> => c.Image = "repo/app:2.0"
          /\ <<"UpdateDeploymentImage", "myservice", <<"api">>>> \in Range(calls')
          /\ Task'.ReplaceResources =
                << [Kind |-> Deployment, Name |-> "myservice", Container |-> <<"api">>,
                    Origin |-> "repo/app:1.0", PodOwnerUID |-> << >>] >>]_vars

\* the Run of the scenario has recorded the api container of the Deployment
C22_Witness ==
    /\ ran.done /\ ran.wtype = Deployment /\ ran.sinks = 0
    /\ Task.ContainerName = <<"api", "_", "myservice">>
    /\ Len(Task.ReplaceResources) = 1
    /\ Task.ReplaceResources[1].Container = <<"api">>
    /\ Task.ReplaceResources[1].Origin = "repo/app:1.0"
    /\ [Name |-> <<"api">>, Image |-> "repo/app:2.0"] \in Range(objs[D1].containers)

\* a step of the scan of a tick: the evaluation of resource idx
TickStep == pc = "tick" /\ (idx' # idx \/ pc' # "tick")

\* C23: a StatefulSet with 3 desired, 3 updated and 2 available replicas is
\* not ready, and the tick that evaluates a tracked StatefulSet in that state
\* ends its scan there and does not set Passed.
C23_StatefulSetTwoOfThree ==
    [][(/\ TickStep /\ idx <= Len(Task.ReplaceResources)
        /\ Task.ReplaceResources[idx].Kind = StatefulSet
        /\ LET st == objs[ResourceId(Task.ReplaceResources[idx])] IN
           /\ st.exists
           /\ st.status.replicas = 3 /\ st.status.updatedReplicas = 3
           /\ st.status.availableReplicas = 2)
       => /\ ~StatefulSetReady(objs[ResourceId(Task.ReplaceResources[idx])].status)
          /\ pc' # "tick" /\ idx' = 0
          /\ Task'.TaskStatus = StatusPassed => Task.TaskStatus = StatusPassed]_vars

\* a tick has left the StatefulSet with 2 of 3 replicas available and gone
\* back to the select
C23_Witness ==
    /\ pc = "select" /\ ran.op = "Wait" /\ Task.TaskStatus # StatusPassed
    /\ \E i \in DOMAIN Task.ReplaceResources :
          /\ Task.ReplaceResources[i].Kind = StatefulSet
          /\ i \notin seen
          /\ \A j \in 1..(i - 1) : j \in seen \/ Task.ReplaceResources[j].Kind = CronJob
          /\ objs[S1].status = RolloutStatus(2, 3, 2)

\* Wait is in its poll loop
InLoop == pc \in {"select", "tick"}

\* C25: with every cluster call returning and the timer firing, a Wait that
\* has entered its poll loop returns, and it returns from the loop with
\* TaskStatus Passed, Failed, Timeout or Cancelled (the part of Wait before
\* the loop is one step, so it returns as well)
C25_WaitTerminates ==
    /\ InLoop ~> pc = "idle"
    /\ [][(InLoop /\ pc' = "idle") => Task'.TaskStatus \in Terminal]_vars

C25_Witness ==
    /\ pc = "idle" /\ ran.op = "Wait" /\ timedOut /\ ~cancelled
    /\ Task.TaskStatus = StatusTimeout
    /\ Task.ReplaceResources # << >>

\* C26: at the select of a poll tick at which the timer has fired and the
\* context is not cancelled, the step Wait takes sets TaskStatus Timeout and
\* returns; no resource is read or fast-fail-checked on that tick, and the
\* status is not Passed, whatever the rollout of the tracked resources
C26_DeadlineBeforeReadiness ==
    [][(pc = "select" /\ timedOut /\ ~cancelled /\ pc' # "select")
       => /\ pc' = "idle" /\ Task'.TaskStatus = StatusTimeout
          /\ Task'.TaskStatus # StatusPassed
          /\ idx' = idx /\ seen' = seen
          /\ Task'.ReplaceResources = Task.ReplaceResources]_vars

C26_Witness ==
    /\ pc = "idle" /\ ran.op = "Wait" /\ timedOut /\ ~cancelled
    /\ Task.TaskStatus = StatusTimeout
    /\ Polled(Task) # {}
    /\ \A i \in Polled(Task) : ReadyInCluster(objs, Task.ReplaceResources[i])

\* the tick ends with this step
TickEnds == pc = "tick" /\ pc' # "tick"

\* C27: a tick evaluates the resources in ReplaceResources order, from the
\* first; it goes on to the next resource only past one it observed ready (or
\* one it does not poll), so the first not-ready resource ends the scan; and
\* the tick sets Passed if and only if it observed every tracked Deployment
\* and StatefulSet ready
C27_ScanOrder ==
    [][/\ (pc = "select" /\ pc' = "tick") => (idx' = 1 /\ seen' = {})
       /\ TickStep =>
             /\ idx' \in {idx + 1, 0}
             /\ seen' \in {seen, seen \cup {idx}}
             /\ seen' \subseteq 1..idx
             /\ pc' = "tick" =>
                   /\ idx' = idx + 1 /\ Task' = Task
                   /\ idx \in Polled(Task) => idx \in seen'
       /\ (TickEnds /\ Task.TaskStatus # StatusPassed)
             => (Task'.TaskStatus = StatusPassed <=> Polled(Task) \subseteq seen')]_vars

\* the place of a workload kind in the order of the discovery loops
KindRank(kind) ==
    CASE kind = Deployment -> 1
      [] kind = StatefulSet -> 2
      [] OTHER -> 3

\* the workload kind an image-patch call addresses
PatchedKind(call) ==
    CASE call = "UpdateDeploymentImage" -> Deployment
      [] call = "UpdateStatefulSetImage" -> StatefulSet
      [] OTHER -> CronJob

\* C28: a Run in discovery mode makes its image-patch calls in the order
\* Deployment, StatefulSet, CronJob, legacy-beta CronJob, at most one for a
\* Deployment, one for a StatefulSet and two for CronJobs (four in all); the
\* workload patched is the first listed of its kind that has the container,
\* one container of it is changed, and the Resources appended are those of
\* the successful patch calls, in the same order
C28_DiscoveryOrder ==
    [][(RunStep /\ ran'.wtype = "")
       => LET patches == CallsNamed(calls', UpdateCalls)
              appended == SubSeq(Task'.ReplaceResources, Len(Task.ReplaceResources) + 1,
                                 Len(Task'.ReplaceResources))
          IN /\ Len(patches) <= 4 /\ Len(appended) <= 4
             /\ Len(appended) \in {Len(patches), Len(patches) - 1}
             /\ Len(appended) < Len(patches) => ran'.sinks = 1
             /\ \A i, j \in DOMAIN patches :
                   i < j => /\ KindRank(PatchedKind(patches[i][1])) <= KindRank(PatchedKind(patches[j][1]))
                            /\ PatchedKind(patches[i][1]) = PatchedKind(patches[j][1])
                                  => PatchedKind(patches[i][1]) = CronJob
             /\ Cardinality({i \in DOMAIN patches : PatchedKind(patches[i][1]) = CronJob}) <= 2
             /\ \A i \in DOMAIN patches :
                   LET id == [kind |-> PatchedKind(patches[i][1]), name |-> patches[i][2]] IN
                   /\ objs[id].exists /\ HasContainer(objs[id], patches[i][3])
                   /\ \A k \in DOMAIN Universe :
                         (/\ Universe[k].kind = id.kind /\ objs[Universe[k]].exists
                          /\ HasContainer(objs[Universe[k]], patches[i][3]))
                            => \A l \in DOMAIN Universe : Universe[l] = id => l <= k
                   /\ i \in DOMAIN appended =>
                         /\ appended[i].Kind = id.kind /\ appended[i].Name = id.name
                         /\ appended[i].Container = patches[i][3]
                         /\ Cardinality(ChangedContainers(id)) = 1
             /\ \A id \in Ids :
                   objs'[id] # objs[id] =>
                      \E i \in DOMAIN appended :
                         appended[i].Kind = id.kind /\ appended[i].Name = id.name]_vars

\* a discovery Run has patched the helper Deployment listed first, the
\* StatefulSet and the CronJob, and left the service's own Deployment alone
C28_Witness ==
    /\ ran.done /\ ran.wtype = "" /\ ran.sinks = 0
    /\ Len(Task.ReplaceResources) = 3
    /\ Task.ReplaceResources[1].Kind = Deployment /\ Task.ReplaceResources[1].Name = "aux"
    /\ Task.ReplaceResources[2].Kind = StatefulSet
    /\ Task.ReplaceResources[3].Kind = CronJob
    /\ objs[D1].exists /\ ApiContainer \in Range(objs[D1].containers)
    /\ Len(CallsNamed(calls, UpdateCalls)) = 3

\* the ReplicaSets of a list that the Deployment controls
OwnedBy(rsList, id) ==
    {rs \in Range(rsList) : /\ TemplateLabels(id) \subseteq rs.Labels
                            /\ rs.Controller = WorkloadUID(id)}

\* C29: the fingerprint is taken by the setup of Wait and by no later step;
\* when it succeeds, the PodOwnerUID of a Deployment Resource is the UID of
\* the ReplicaSet created last among those the Deployment controls (a
\* ReplicaSet that matches the selector under another controller is not
\* counted), that of a StatefulSet Resource is the StatefulSet's UID, that of
\* a CronJob Resource is what it was; when the ReplicaSets listed for a
\* Deployment have none it controls, the fingerprint fails, Wait returns and
\* no Resource is changed
C29_Fingerprint ==
    [][/\ (WaitBeginStep /\ ~Task.SkipWaiting) =>
             LET old == Task.ReplaceResources
                 new == Task'.ReplaceResources
                 listed(i) == \E k \in DOMAIN calls' :
                                 calls'[k] = <<"ListReplicaSets", old[i].Name>>
             IN /\ pc' = "select" =>
                      \A i \in DOMAIN old :
                         /\ SameButUID(old[i], new[i])
                         /\ old[i].Kind = Deployment =>
                               \E rs \in OwnedBy(ran'.replicaSets, ResourceId(old[i])) :
                                  /\ new[i].PodOwnerUID = rs.UID
                                  /\ \A other \in OwnedBy(ran'.replicaSets, ResourceId(old[i])) :
                                        other.CreationTimestamp <= rs.CreationTimestamp
                         /\ old[i].Kind = StatefulSet =>
                               new[i].PodOwnerUID = WorkloadUID(ResourceId(old[i]))
                         /\ old[i].Kind = CronJob => new[i].PodOwnerUID = old[i].PodOwnerUID
                /\ (\E i \in DOMAIN old :
                       /\ old[i].Kind = Deployment /\ listed(i)
                       /\ OwnedBy(ran'.replicaSets, ResourceId(old[i])) = {})
                      => /\ pc' = "idle" /\ new = old
                         /\ Task'.Error # NoErr
                         /\ Head(Task'.Error) = "get resource owner info error: "
       /\ (InLoop /\ ~RunStep) => Task'.ReplaceResources = Task.ReplaceResources]_vars

\* a Wait has fingerprinted a Deployment with an older and a newer ReplicaSet
\* of its own and one of another controller that is newer than both
C29_Witness ==
    /\ ran.op = "Wait" /\ pc = "select"
    /\ ForeignRS(D1) \in Range(ran.replicaSets)
    /\ OldRS(D1) \in Range(ran.replicaSets)
    /\ \E i \in DOMAIN Task.ReplaceResources :
          /\ Task.ReplaceResources[i].Kind = Deployment
          /\ Task.ReplaceResources[i].PodOwnerUID = NewRS(D1).UID
    /\ \E i \in DOMAIN Task.ReplaceResources :
          /\ Task.ReplaceResources[i].Kind = StatefulSet
          /\ Task.ReplaceResources[i].PodOwnerUID = WorkloadUID(S1)
    /\ \E i \in DOMAIN Task.ReplaceResources :
          /\ Task.ReplaceResources[i].Kind = CronJob
          /\ Task.ReplaceResources[i].PodOwnerUID = << >>

\* the tracked resources of the task are CronJobs, all of them
AllCronJobs(task) ==
    /\ task.ReplaceResources # << >>
    /\ \A i \in DOMAIN task.ReplaceResources : task.ReplaceResources[i].Kind = CronJob

\* C30: the setup of Wait fetches no CronJob; the step of a tick that
\* evaluates a CronJob Resource observes nothing and does not end the tick
\* as not ready; and every step of a tick of a Task whose Resources are all
\* CronJobs goes on to the next Resource or ends the tick with Passed
C30_CronJobNotPolled ==
    [][/\ WaitBeginStep => "GetCronJob" \notin CallNames(calls')
       /\ (/\ TickStep /\ idx <= Len(Task.ReplaceResources)
           /\ Task.ReplaceResources[idx].Kind = CronJob)
             => /\ seen' = seen
                /\ \/ pc' = "tick" /\ idx' = idx + 1
                   \/ Task'.TaskStatus = StatusPassed
                   \/ Task'.TaskStatus = StatusFailed /\ Task'.Error # NoErr
       /\ (TickStep /\ AllCronJobs(Task))
             => \/ pc' = "tick" /\ idx' = idx + 1
                \/ pc' = "idle" /\ Task'.TaskStatus = StatusPassed]_vars

\* the Task of a plugin instance, parked or running
TaskOf(id) == IF peer.id = id THEN peer.Task ELSE Task

\* what SetTask decoded into a Task and no operation assigns
Payload(task) == <<task.ContainerName, task.ServiceName, task.Image, task.SkipWaiting>>

\* C24: with two plugin instances, each with its own Task, taking Run and
\* Wait steps in any interleaving, a step of the running instance leaves the
\* Task of the other instance (and its position, context and timer) as it
\* is, a switch between the instances carries each Task over unchanged, and
\* the Task of each instance keeps the payload it was decoded from: no step
\* writes one instance's data into the other's Task
C24_NoSharedTask ==
    [][/\ peer'.id = peer.id => peer' = peer
       /\ peer'.id # peer.id => (peer'.Task = Task /\ Task' = peer.Task)
       /\ \A id \in {1, 2} : Payload(TaskOf(id))' = Payload(TaskOf(id))]_vars

\* the first instance polls the Resources its Run recorded while the second
\* instance has failed its own Run and is parked
C24_Witness ==
    /\ peer.id = 2 /\ pc = "tick" /\ idx >= 2
    /\ Task.Image = NewImage /\ Task.ReplaceResources # << >>
    /\ peer.Task.Image = PeerImage /\ peer.Task.TaskStatus = StatusFailed
    /\ Task.TaskStatus # StatusFailed

\* the step is the fast-fail of a tick: lines 600-604 with the error of a pod
FastFailStep ==
    /\ TickStep /\ idx <= Len(Task.ReplaceResources)
    /\ Task' # Task /\ Task'.TaskStatus = StatusFailed
    /\ Task'.Error # NoErr /\ Head(Task'.Error) = "pod: "

\* C31: on deadline (the pod listings succeeding) the scan reports the
\* containers of every pod that matches a recorded label set, whatever the
\* pod's owner; the fast-fail check of a tick reports a pod only if the pod
\* is owned by the PodOwnerUID of the Resource the tick evaluates
C31_ScanNotFingerprinted ==
    [][/\ (pc = "select" /\ timedOut /\ pc' = "idle") =>
             \A clusterPods \in PodLists :
                WaitTimeout(clusterPods, 0)
                   => LET lines == RelatedLines(clusterPods, Task.RelatedPodLabels,
                                                HasMessageAndPodNotUp)
                      IN Task'.Error = IF lines = << >> THEN Task.Error
                                       ELSE Join(lines, "\n")
       /\ FastFailStep =>
             \E j \in DOMAIN AllPods :
                /\ AllPods[j].Name = Task'.Error[2]
                /\ AllPods[j].OwnerUID = Task.ReplaceResources[idx].PodOwnerUID]_vars

\* Wait has timed out and reported a container of a pod of the Deployment's
\* previous ReplicaSet, which no Resource's fingerprint names
C31_Witness ==
    /\ pc = "idle" /\ ran.op = "Wait" /\ Task.TaskStatus = StatusTimeout
    /\ \E i \in DOMAIN Task.Error : Task.Error[i] = "old back-off"
    /\ Task.ReplaceResources # << >>
    /\ \A i \in DOMAIN Task.ReplaceResources :
          Task.ReplaceResources[i].PodOwnerUID # ReplicaSetUID(D1, 1)

\* C32: a Run that follows a successful Run of the same Task, with the same
\* answer about the workload kind and no other operation or change of the
\* cluster between the two, leaves every workload as the first Run left it:
\* the container each recorded Resource names runs the Task's image, every
\* other container the image it had
C32_PatchIdempotent ==
    [][(/\ RunStep /\ ran.op = "Run" /\ ran.sinks = 0 /\ ~ran.panicked
        /\ Task.ReplaceResources # << >>
        /\ ran'.wtype = ran.wtype)
       => /\ objs' = objs
          /\ \A i \in DOMAIN Task'.ReplaceResources :
                LET resource == Task'.ReplaceResources[i]
                    cs == objs'[ResourceId(resource)].containers
                IN \A k \in DOMAIN cs :
                      cs[k].Image = IF cs[k].Name = resource.Container THEN Task.Image
                                    ELSE SidecarImage]_vars

\* the second of two successful Runs has found the container at the image
\* the first one gave it
C32_Witness ==
    /\ ran.op = "Run" /\ ran.done /\ ran.sinks = 0 /\ ops = 2
    /\ Len(Task.ReplaceResources) = 2
    /\ Task.ReplaceResources[1].Kind = Task.ReplaceResources[2].Kind
    /\ Task.ReplaceResources[1].Origin = OldImage
    /\ Task.ReplaceResources[2].Origin = Task.Image

\* C33: a successful Run appends as many pod-template label sets to
\* RelatedPodLabels as Resources to ReplaceResources, the label set at the
\* place of a Resource being that of the Resource's workload
C33_LabelsForEveryResource ==
    [][(RunStep /\ ran'.sinks = 0 /\ ~ran'.panicked)
       => LET old == Len(Task.ReplaceResources)
              appended == Len(Task'.ReplaceResources) - old
              oldLabels == Len(Task.RelatedPodLabels)
          IN /\ Len(Task'.RelatedPodLabels) - oldLabels = appended
             /\ \A k \in 1..appended :
                   Task'.RelatedPodLabels[oldLabels + k]
                      = TemplateLabels(ResourceId(Task'.ReplaceResources[old + k]))]_vars

\* the pod lists none of whose pods is owned by uid
ForeignPodLists(uid) ==
    {clusterPods \in PodLists :
        \A j \in DOMAIN clusterPods : ~IsOwnerMatched(clusterPods[j], uid)}

\* C34: a step of a tick that fails the Task with the error of a pod is not
\* the evaluation of a Resource against pods that are all owned by others than
\* the Resource's PodOwnerUID: a pod of another owner, crash-looping or not,
\* never fails the Task
C34_ForeignPodsNeverFail ==
    [][FastFailStep
       => \A clusterPods \in ForeignPodLists(Task.ReplaceResources[idx].PodOwnerUID) :
             ~WaitTick(clusterPods, 0, FALSE)]_vars

\* a tick has evaluated the Deployment, fingerprinted by its latest
\* ReplicaSet, and gone on, whereas the crash-looping pod of the previous
\* ReplicaSet matches the recorded labels
C34_Witness ==
    /\ pc = "tick" /\ idx = 2 /\ Task.TaskStatus = StatusCreated
    /\ Task.ReplaceResources[1].Kind = Deployment
    /\ Task.ReplaceResources[1].PodOwnerUID = ReplicaSetUID(D1, 2)
    /\ ListPods(<<AllPods[1]>>, Task.RelatedPodLabels[1]) = <<AllPods[1]>>
    /\ FatalContainers(AllPods[1]) # << >>
    /\ <<AllPods[1]>> \in ForeignPodLists(Task.ReplaceResources[1].PodOwnerUID)

\* C35: no step of a Wait sets Passed for a Task that waits (SkipWaiting
\* false) and tracks no Resource
C35_NoPassedWithoutResource ==
    [][(/\ InLoop /\ ~Task.SkipWaiting
        /\ Task.ReplaceResources = << >>)
       => ~(Task'.TaskStatus = StatusPassed /\ Task.TaskStatus # StatusPassed)]_vars

\* C36: a Run that ends without an error leaves every field of the Task but
\* ReplaceResources and RelatedPodLabels as it was, TaskStatus and Error
\* among them: it neither sets Passed nor clears a previous Error
C36_SuccessfulRunFrame ==
    [][(RunStep /\ ran'.sinks = 0 /\ ~ran'.panicked)
       => /\ Task'.TaskStatus = Task.TaskStatus
          /\ Task'.Error = Task.Error
          /\ Task' = [Task EXCEPT !.ReplaceResources = Task'.ReplaceResources,
                                  !.RelatedPodLabels = Task'.RelatedPodLabels]]_vars

\* a Run has patched a workload without an error on a Task that a previous
\* Run had failed
C36_Witness ==
    /\ ran.op = "Run" /\ ran.done /\ ran.sinks = 0 /\ ~ran.panicked /\ ops = 2
    /\ Task.ReplaceResources # << >>
    /\ \E i \in DOMAIN calls : calls[i][1] \in UpdateCalls
    /\ Task.TaskStatus = StatusFailed /\ Task.Error # NoErr

\* C37: the timeout branch ends the Wait with TaskStatus Timeout whatever the
\* scan met, and changes nothing else of the Task but Error: a failing
\* ListPods makes Error that error, whatever was gathered before; with every
\* listing succeeding and no message gathered Error keeps its value, and with
\* a message gathered Error is not left empty
C37_TimeoutError ==
    [][(pc = "select" /\ timedOut /\ pc' = "idle") =>
          \A clusterPods \in PodLists, failAt \in 0..MaxListCalls :
             WaitTimeout(clusterPods, failAt)
                => LET none == RelatedLines(clusterPods, Task.RelatedPodLabels,
                                            HasMessageAndPodNotUp) = << >>
                   IN /\ Task'.TaskStatus = StatusTimeout
                      /\ Task' = [Task EXCEPT !.TaskStatus = StatusTimeout,
                                              !.Error = Task'.Error]
                      /\ failAt # 0 => Task'.Error = ApiError("ListPods")
                      /\ (failAt = 0 /\ none) => Task'.Error = Task.Error
                      /\ (failAt = 0 /\ ~none)
                            => Task'.Error # NoErr /\ Head(Task'.Error) = "Status: "]_vars

\* a Wait has timed out with nothing to report and has left the error of the
\* failed Run before it in place
C37_Witness ==
    /\ pc = "idle" /\ ran.op = "Wait" /\ ops = 2 /\ Task.TaskStatus = StatusTimeout
    /\ Task.Error # NoErr /\ Task.Error # ApiError("ListPods")
    /\ Head(Task.Error) # "Status: "

\* C38: SetTask is all or nothing: with a payload the conversion rejects it
\* returns the error and the Task bound before stays bound, unchanged; with a
\* payload the conversion accepts it returns no error and GetTask returns
\* the Task the conversion made
C38_SetTaskAllOrNothing ==
    [][(ran'.op = "SetTask" /\ ops' = ops + 1) =>
          \A t \in Payloads :
             SetTask(t)
                => \E r \in {ToDeployTask(t)} :
                      IF r.err # NoErr
                      THEN ran'.failures = <<r.err>> /\ GetTask' = GetTask
                      ELSE ran'.failures = << >> /\ GetTask' = r.task]_vars

\* a SetTask has returned an error on a plugin whose Task a Run had filled
C38_Witness ==
    /\ ran.op = "SetTask" /\ ran.failures # << >>
    /\ GetTask.ReplaceResources # << >> /\ GetTask.Image = NewImage

====
